---------------------------- MODULE Spec2Model ----------------------------
(***************************************************************************)
(* SWEEP: structure-fire emissions pipeline.                               *)
(*   estimate_emissions  (src/scripts/emissions.py)                        *)
(*   aggregated_report   (src/sweep/aggregate.py)                          *)
(*   vehicle_calculator  (src/sweep/vehicles.py)                           *)
(*   sweep_estimator / sweep_predictor argument validation                 *)
(*                                                                         *)
(* Numbers.  Floating-point columns are modelled by exact values:          *)
(*   - a rational is a record [n, d] in lowest terms, d > 0;               *)
(*     RNaN = [n |-> 0, d |-> 0] is pandas' NaN in a rational column;      *)
(*   - a rounded column (round(x, k)) is the integer x * 10^k, and NaN is  *)
(*     pandas' NaN in such a column.                                       *)
(* round() is numpy's round-half-to-even.                                  *)
(***************************************************************************)
EXTENDS Integers, Sequences, FiniteSets, TLC

VARIABLES
    pc,             \* position of the run
    error,          \* the exception that ended the run, or "none"
    log,            \* what the run printed, in order
    args,           \* the arguments of the call in progress
    structure_df,   \* the caller's input table of estimate_emissions
    pounds,         \* the E_<pollutant> pound columns before they are dropped
    emissions_gdf,  \* the per-structure emissions table
    agg_out,        \* the summary returned by aggregated_report
    vehicle_table,  \* the table returned by vehicle_calculator
    filt_bsdb       \* the filter's working table, and the table it returns

vars == <<pc, error, log, args, structure_df, pounds, emissions_gdf,
          agg_out, vehicle_table, filt_bsdb>>

-----------------------------------------------------------------------------
(* Bounds of the model *)

\* rows of an input table
MaxRows == 2

\* names in an aggregates argument
MaxAggs == 2

-----------------------------------------------------------------------------
(* Numbers *)

NaN == -1

RNaN == [n |-> 0, d |-> 0]

IsRNaN(x) == x.d = 0

RECURSIVE GCD(_, _)
GCD(a, b) == IF b = 0 THEN a ELSE GCD(b, a % b)

Rat(n, d) == LET g == GCD(n, d) IN [n |-> n \div g, d |-> d \div g]

RInt(k) == [n |-> k, d |-> 1]

\* a milli-unit column value (or NaN) as a rational
Milli(v) == IF v = NaN THEN RNaN ELSE Rat(v, 1000)

RMul(x, y) ==
    IF IsRNaN(x) \/ IsRNaN(y) THEN RNaN
    ELSE LET g1 == GCD(x.n, y.d)
             g2 == GCD(y.n, x.d)
         IN  Rat((x.n \div g1) * (y.n \div g2), (x.d \div g2) * (y.d \div g1))

RAdd(x, y) ==
    IF IsRNaN(x) \/ IsRNaN(y) THEN RNaN
    ELSE LET g == GCD(x.d, y.d)
         IN  Rat(x.n * (y.d \div g) + y.n * (x.d \div g), (x.d \div g) * y.d)

RDiv(x, y) == IF IsRNaN(x) \/ IsRNaN(y) THEN RNaN ELSE RMul(x, [n |-> y.d, d |-> y.n])

\* numpy round: x * scale rounded half to even, as an integer (NaN stays NaN)
RoundScaled(x, scale) ==
    IF IsRNaN(x) THEN NaN
    ELSE LET y == RMul(x, RInt(scale))
             q == y.n \div y.d
             r == y.n % y.d
         IN  IF 2 * r < y.d THEN q
             ELSE IF 2 * r > y.d THEN q + 1
             ELSE IF q % 2 = 0 THEN q ELSE q + 1

Range(s) == {s[i] : i \in 1..Len(s)}

RECURSIVE SelectIdx(_, _, _)
\* the indices i of 1..n with Keep[i], in increasing order
SelectIdx(Keep, i, n) ==
    IF i > n THEN <<>>
    ELSE IF Keep[i] THEN <<i>> \o SelectIdx(Keep, i + 1, n)
    ELSE SelectIdx(Keep, i + 1, n)

\* str.upper() on the identifiers the model uses
Upper(s) ==
    CASE s = "holder" -> "HOLDER"
      [] s = "carb"   -> "CARB"
      [] s = "dins3"  -> "DINS3"
      [] s = "Dins5"  -> "DINS5"
      [] s = "month"  -> "MONTH"
      [] s = "count"  -> "COUNT"
      [] s = "ratio"  -> "RATIO"
      [] s = "NOx"    -> "NOX"
      [] s = "co"     -> "CO"
      [] s \in {"All", "all", "aLL"} -> "ALL"
      [] s = "state"  -> "STATE"
      [] s = "State"  -> "STATE"
      [] s \in {"Wildfire Name", "wildfire name"} -> "WILDFIRE NAME"
      [] s = "Incident Number" -> "INCIDENT NUMBER"
      [] s \in {"County", "county"} -> "COUNTY"
      [] s = "Air Basin"    -> "AIR BASIN"
      [] s = "Air District" -> "AIR DISTRICT"
      [] s = "CoAbDis Code" -> "COABDIS CODE"
      [] s \in {"Camp", "camp"} -> "CAMP"
      [] s = "Woolsey"      -> "WOOLSEY"
      [] s \in {"Interactive", "interactive"} -> "INTERACTIVE"
      [] s \in {"Automated", "automated"} -> "AUTOMATED"
      [] s \in {"Spatial", "spatial"} -> "SPATIAL"
      [] s = "Manual"       -> "MANUAL"
      [] OTHER        -> s

-----------------------------------------------------------------------------
(* Tables.  A table is [cols |-> the column names in order, rows |-> the  *)
(* rows in order]; a row is a record, and only the fields named in cols   *)
(* exist as columns.                                                       *)

HasCol(df, c) == c \in Range(df.cols)

AddCol(cols, c) == IF c \in Range(cols) THEN cols ELSE Append(cols, c)

-----------------------------------------------------------------------------
(* estimate_emissions *)

DamageLabels ==
    <<"No Damage", "Affected (1-9%)", "Minor (10-25%)", "Major (26-50%)",
      "Destroyed (>50%)">>

\* the branch of the if/elif chain that a damage label takes; 0: none
DamageBranch(damage) ==
    IF damage \in Range(DamageLabels)
    THEN CHOOSE i \in 1..5 : DamageLabels[i] = damage
    ELSE 0

\* (mutant) DINS5 with the upper bin edges instead of the midpoints
DictionaryBinEdges ==
    [HOLDER |-> <<0, 0, 0, 800, 800>>,
     DINS3  |-> <<0, 0, 0, 500, 950>>,
     DINS5  |-> <<0, 90, 250, 500, 1000>>,
     CARB   |-> <<0, 70, 70, 70, 70>>]

\* consumption fractions in thousandths
structure_consumption_dictionary ==
    [HOLDER |-> <<0, 0, 0, 800, 800>>,
     DINS3  |-> <<0, 0, 0, 500, 950>>,
     DINS5  |-> <<0, 50, 175, 380, 755>>,
     CARB   |-> <<0, 70, 70, 70, 70>>]

\* the fraction of the preset applied to a fraction the table already holds
ConsumptionCellCompounding(row, preset) ==
    IF DamageBranch(row.damage) = 0 THEN row.CONSUMPTION_FACTOR
    ELSE IF row.CONSUMPTION_FACTOR = NaN
    THEN structure_consumption_dictionary[preset][DamageBranch(row.damage)]
    ELSE (structure_consumption_dictionary[preset][DamageBranch(row.damage)]
              * row.CONSUMPTION_FACTOR) \div 1000

\* the value the loop writes into CONSUMPTION_FACTOR for one row: the cell is
\* assigned only in a branch of the chain, and keeps its old value otherwise
ConsumptionCell(row, preset) ==
    IF DamageBranch(row.damage) = 0 THEN row.CONSUMPTION_FACTOR
    ELSE structure_consumption_dictionary[preset][DamageBranch(row.damage)]

\* a factor argument is [str |-> name] (a documented preset name, in any
\* letter case) or [num |-> thousandths]
IsStr(x) == "str" \in DOMAIN x

UpperIfStr(x) == IF IsStr(x) THEN [str |-> Upper(x.str)] ELSE x

\* FRAME_FACTOR column, thousandths
FrameFactorCell(frame_factor) ==
    IF frame_factor = [str |-> "HOLDER"] THEN 31070
    ELSE IF frame_factor = [str |-> "CARB"] THEN 13340
    ELSE frame_factor.num

\* CONTENTS_FACTOR column, thousandths
ContentsFactorCell(contents_factor, cat) ==
    IF contents_factor = [str |-> "CARB"]
    THEN IF cat \in {"SFSS", "SFMS", "MFSS", "MFMS", "MOB", "MOTOR"} THEN 7909
         ELSE IF cat \in {"COMMS", "COMSS", "SCH", "HP"} THEN 8636
         ELSE 7909
    ELSE IF contents_factor = [str |-> "HOLDER"] THEN 5870
    ELSE contents_factor.num

IsAll(pollutants) == IsStr(pollutants) /\ pollutants.str \in {"ALL", "All", "all"}

\* the requested rows of the factor table, missing factors included
EFRowsWithMissing(ef_df, pollutants) ==
    IF IsAll(pollutants) THEN ef_df
    ELSE SelectSeq(ef_df, LAMBDA r : r.POLLUTANT \in Range(pollutants.list))

\* EF: the requested rows of the factor table with a factor present
EFRows(ef_df, pollutants) ==
    LET asked == IF IsAll(pollutants) THEN ef_df
                 ELSE SelectSeq(ef_df, LAMBDA r : r.POLLUTANT \in Range(pollutants.list))
    IN  SelectSeq(asked, LAMBDA r : r.STRUCTURE_GKG # NaN)

\* (mutant) the factor of 2 left out
EmissionFactorUndoubled(r) == Milli(r.STRUCTURE_GKG)

\* EF['EMISSION FACTOR'] of one row of EF
EmissionFactor(r) == RMul(Milli(r.STRUCTURE_GKG), RInt(2))

RECURSIVE Unique(_)
\* Series.unique(): first occurrences, in order
Unique(s) ==
    IF s = <<>> THEN <<>>
    ELSE LET rest == Unique(SelectSeq(Tail(s), LAMBDA x : x # Head(s)))
         IN  <<Head(s)>> \o rest

AvailablePollutants(EF) == Unique([i \in 1..Len(EF) |-> EF[i].POLLUTANT])

\* calculate_emissions for one row: pounds of one pollutant
CalculateEmissions(row, pollutant, EF) ==
    LET ef == EmissionFactor(EF[CHOOSE i \in 1..Len(EF) :
                    /\ EF[i].POLLUTANT = pollutant
                    /\ \A j \in 1..(i - 1) : EF[j].POLLUTANT # pollutant])
        sqft == RInt(row.SQFT)
    IN  RMul(RMul(RDiv(RAdd(RMul(sqft, Milli(row.FRAME_FACTOR)),
                            RMul(sqft, Milli(row.CONTENTS_FACTOR))),
                       RInt(2000)),
                  Milli(row.CONSUMPTION_FACTOR)),
             ef)

\* the pound value rounded without the division by 2000
TonCellUndivided(lb) == RoundScaled(lb, 1000)

\* the E_<pollutant>_TN value: pounds / 2000, round(3), in thousandths of a ton
TonCell(lb) == RoundScaled(RDiv(lb, RInt(2000)), 1000)

ECol(pollutant) == "E_" \o Upper(pollutant) \o "_TN"

out_cols ==
    <<"INCIDENTNAME", "INCIDENTNUM", "START_DATE", "GLOBALID_DINS", "DAMAGE",
      "STRUCTURETYPE", "STRUCTURECATEGORY", "CAT", "SQFT", "SQFT_SOURCE",
      "COUNTY", "AIR_BASIN", "AIR_DISTRICT", "COABDIS", "CONSUMPTION_FACTOR",
      "FRAME_FACTOR", "CONTENTS_FACTOR", "geometry">>

\* column names after .upper() and the rename of lines 187-193
OutName(c) ==
    CASE c = "incidentname" -> "INCIDENTNAME"
      [] c = "clean_date"   -> "START_DATE"
      [] c = "damage"       -> "DAMAGE"
      [] c = "cat"          -> "CAT"
      [] c = "county"       -> "COUNTY"
      [] c = "basin_name"   -> "AIR_BASIN"
      [] c = "dis_name"     -> "AIR_DISTRICT"
      [] c = "coabdis"      -> "COABDIS"
      [] c = "disa_id"      -> "DISA_ID"
      [] c = "aoi_index"    -> "AOI_INDEX"
      [] c = "sqft"         -> "SQFT"
      [] c = "bsdb_sqft"    -> "BSDB_SQFT"
      [] c = "geometry"     -> "geometry"
      [] OTHER              -> c

\* The whole call on input table df with arguments a.  Returns
\*   error: the exception raised, or "none";
\*   input: the caller's table when the call ends (written in place up to
\*          line 122; the rename of line 124 makes a copy);
\*   pounds: the pound columns of line 178, per row and pollutant;
\*   out:   the returned table.
EstimateEmissions(df, a) ==
    LET preset == Upper(a.structure_consumption)
        n      == Len(df.rows)
        known  == {i \in 1..n : DamageBranch(df.rows[i].damage) # 0}
        badKey == known # {} /\ preset \notin DOMAIN structure_consumption_dictionary
        \* lines 107-122, in place
        rows1  == [i \in 1..n |->
                     [df.rows[i] EXCEPT
                        !.CONSUMPTION_FACTOR = ConsumptionCell(df.rows[i], preset),
                        !.bsdb_sqft = df.rows[i].sqft]]
        cols1  == AddCol(IF known # {} THEN AddCol(df.cols, "CONSUMPTION_FACTOR")
                         ELSE df.cols, "bsdb_sqft")
        df1    == [cols |-> cols1, rows |-> rows1]
        ff     == UpperIfStr(a.frame_factor)
        cf     == UpperIfStr(a.contents_factor)
        badPol == IsStr(a.pollutants) /\ ~IsAll(a.pollutants)
        EF     == EFRows(a.ef_df, a.pollutants)
        avail  == AvailablePollutants(EF)
        \* lines 124-146: the working copy
        work   == [i \in 1..n |->
                     [INCIDENTNAME |-> rows1[i].incidentname,
                      START_DATE |-> rows1[i].clean_date,
                      DAMAGE |-> rows1[i].damage,
                      CAT |-> rows1[i].cat,
                      SQFT |-> rows1[i].sqft,
                      COUNTY |-> rows1[i].county,
                      AIR_BASIN |-> rows1[i].basin_name,
                      AIR_DISTRICT |-> rows1[i].dis_name,
                      COABDIS |-> rows1[i].coabdis,
                      DISA_ID |-> rows1[i].disa_id,
                      AOI_INDEX |-> rows1[i].aoi_index,
                      CONSUMPTION_FACTOR |-> rows1[i].CONSUMPTION_FACTOR,
                      FRAME_FACTOR |-> FrameFactorCell(ff),
                      CONTENTS_FACTOR |-> ContentsFactorCell(cf, rows1[i].cat)]]
        noCF   == ~HasCol(df1, "CONSUMPTION_FACTOR")
        lbs    == [i \in 1..n |->
                     [p \in Range(avail) |-> CalculateEmissions(work[i], p, EF)]]
        wcols  == [i \in 1..Len(cols1) |-> OutName(cols1[i])]
                  \o <<"FRAME_FACTOR", "CONTENTS_FACTOR">>
        tn     == [i \in 1..Len(avail) |-> ECol(avail[i])]
        kept   == SelectSeq(out_cols, LAMBDA c : c \in Range(wcols))
        outrow == [i \in 1..n |->
                     [INCIDENTNAME |-> work[i].INCIDENTNAME,
                      START_DATE |-> work[i].START_DATE,
                      DAMAGE |-> work[i].DAMAGE,
                      CAT |-> work[i].CAT,
                      SQFT |-> work[i].SQFT,
                      COUNTY |-> work[i].COUNTY,
                      AIR_BASIN |-> work[i].AIR_BASIN,
                      AIR_DISTRICT |-> work[i].AIR_DISTRICT,
                      COABDIS |-> work[i].COABDIS,
                      DISA_ID |-> work[i].DISA_ID,
                      AOI_INDEX |-> work[i].AOI_INDEX,
                      CONSUMPTION_FACTOR |-> work[i].CONSUMPTION_FACTOR,
                      FRAME_FACTOR |-> work[i].FRAME_FACTOR,
                      CONTENTS_FACTOR |-> work[i].CONTENTS_FACTOR,
                      E |-> [c \in Range(tn) |->
                               TonCell(lbs[i][CHOOSE p \in Range(avail) : ECol(p) = c])]]]
        asked  == [msg |-> "Requested pollutants", val |-> a.pollutants]
        said   == <<asked, [msg |-> "Returned pollutants", val |-> avail]>>
    IN  IF badKey
        THEN [error |-> "KeyError", input |-> df, pounds |-> <<>>, out |-> <<>>,
              said |-> <<>>]
        ELSE IF badPol
        THEN [error |-> "TypeError", input |-> df1, pounds |-> <<>>, out |-> <<>>,
              said |-> <<asked>>]
        ELSE IF avail # <<>> /\ noCF
        THEN [error |-> "KeyError", input |-> df1, pounds |-> <<>>, out |-> <<>>,
              said |-> said]
        ELSE [error |-> "none", input |-> df1, pounds |-> lbs,
              out |-> [cols |-> kept \o tn, rows |-> outrow],
              said |-> said]

-----------------------------------------------------------------------------
(* Input data.  Names of incidents, counties, basins and districts are     *)
(* codes that order as the names sort; NaN is a missing value.             *)

input_cols ==
    <<"incidentname", "clean_date", "damage", "cat", "sqft", "county",
      "basin_name", "dis_name", "coabdis", "disa_id", "aoi_index">>

\* where a structure stands: the incident and jurisdiction attributes of a row
\* (clean_date is yyyymm)
Sites ==
    <<[incidentname |-> 1, clean_date |-> 202009, county |-> 1, basin_name |-> 1,
       dis_name |-> 1, disa_id |-> 2, coabdis |-> 1, aoi_index |-> 1],
      [incidentname |-> 2, clean_date |-> 202010, county |-> 1, basin_name |-> 1,
       dis_name |-> 2, disa_id |-> 1, coabdis |-> 2, aoi_index |-> 1],
      [incidentname |-> 1, clean_date |-> 202109, county |-> NaN, basin_name |-> 2,
       dis_name |-> 2, disa_id |-> 1, coabdis |-> 3, aoi_index |-> 2]>>

Damages == Range(DamageLabels) \cup {"Inaccessible"}

Buildings == {[sqft |-> 0, cat |-> "SFSS"], [sqft |-> 1500, cat |-> "COMMS"]}

StructureRow(site, damage, b) ==
    [incidentname |-> Sites[site].incidentname,
     clean_date |-> Sites[site].clean_date,
     damage |-> damage, cat |-> b.cat, sqft |-> b.sqft,
     county |-> Sites[site].county,
     basin_name |-> Sites[site].basin_name,
     dis_name |-> Sites[site].dis_name,
     coabdis |-> Sites[site].coabdis,
     disa_id |-> Sites[site].disa_id,
     aoi_index |-> Sites[site].aoi_index,
     CONSUMPTION_FACTOR |-> NaN, bsdb_sqft |-> NaN]

\* the non-empty tables of at most MaxRows rows over a set of rows
TablesOver(rowset, cols) ==
    UNION {{[cols |-> cols, rows |-> r] : r \in [1..k -> rowset]} : k \in 1..MaxRows}

\* factor tables as read_excel returns them (STRUCTURE_GKG in thousandths)
EFTables ==
    [HOLDER |-> <<[POLLUTANT |-> "CO", STRUCTURE_GKG |-> 50000],
                  [POLLUTANT |-> "NOx", STRUCTURE_GKG |-> NaN],
                  [POLLUTANT |-> "PM", STRUCTURE_GKG |-> 7500]>>,
     CARB   |-> <<[POLLUTANT |-> "CO", STRUCTURE_GKG |-> 2000]>>]

EmissionArgs ==
    {[structure_consumption |-> sc, frame_factor |-> c[1], contents_factor |-> c[2],
      ef_df |-> EFTables[c[3]], pollutants |-> c[4]] :
        sc \in {"HOLDER", "DINS3", "DINS5", "CARB", "dins3", "LOW"},
        c \in {<<[str |-> "HOLDER"], [str |-> "holder"], "HOLDER", [str |-> "ALL"]>>,
               <<[str |-> "carb"], [str |-> "CARB"], "HOLDER",
                 [list |-> <<"CO", "NOx", "PO">>]>>,
               <<[num |-> 10000], [num |-> 5000], "CARB", [list |-> <<"CO">>]>>,
               <<[str |-> "HOLDER"], [str |-> "HOLDER"], "HOLDER", [list |-> <<"PO">>]>>,
               <<[str |-> "HOLDER"], [str |-> "HOLDER"], "CARB", [str |-> "CO"]>>,
               <<[str |-> "HOLDER"], [str |-> "HOLDER"], "HOLDER",
                 [list |-> <<"co", "PM">>]>>,
               <<[str |-> "HOLDER"], [str |-> "HOLDER"], "HOLDER", [str |-> "aLL"]>>}}

NoTable == [cols |-> <<>>, rows |-> <<>>]

NoArgs == [none |-> TRUE]

-----------------------------------------------------------------------------
(* Specification of estimate_emissions: a call, and calls again on the     *)
(* same input table with the same arguments.                               *)

InitEmissions ==
    /\ pc = "loaded"
    /\ error = "none"
    /\ log = <<>>
    /\ args \in EmissionArgs
    /\ structure_df \in TablesOver({StructureRow(1, d, b) : d \in Damages, b \in Buildings},
                                    input_cols)
    /\ pounds = <<>>
    /\ emissions_gdf = NoTable
    /\ agg_out = NoTable
    /\ vehicle_table = NoTable
    /\ filt_bsdb = NoTable

EstimateCall ==
    /\ pc \in {"loaded", "estimated"}
    /\ \E r \in {EstimateEmissions(structure_df, args)} :
           /\ pc' = IF r.error = "none" THEN "estimated" ELSE "error"
           /\ error' = r.error
           /\ log' = r.said
           /\ structure_df' = r.input
           /\ pounds' = r.pounds
           /\ emissions_gdf' = IF r.error = "none" THEN r.out ELSE NoTable
    /\ UNCHANGED <<args, agg_out, vehicle_table, filt_bsdb>>

NextEmissions == EstimateCall

SpecEmissions == InitEmissions /\ [][NextEmissions]_vars

-----------------------------------------------------------------------------
(* Claims about estimate_emissions *)

\* whether the call resolves a row of the factor table: requested, factor present
Resolved(t) ==
    /\ t.STRUCTURE_GKG # NaN
    /\ IsAll(args.pollutants) \/ t.POLLUTANT \in Range(args.pollutants.list)

\* C1: for every record and every pollutant resolved from the factor table,
\* the pound-basis mass is
\*   ((floor_area * frame + floor_area * contents) / 2000) * consumption * ef
\* with ef exactly twice the table's STRUCTURE_GKG of that pollutant.
C1_PoundFormula ==
    pc = "estimated" =>
        \A i \in 1..Len(emissions_gdf.rows) : \A k \in 1..Len(args.ef_df) :
            LET row  == emissions_gdf.rows[i]
                t    == args.ef_df[k]
                area == RInt(row.SQFT)
                ef   == Rat(2 * t.STRUCTURE_GKG, 1000)
                fuel == RDiv(RAdd(RMul(area, Milli(row.FRAME_FACTOR)),
                                  RMul(area, Milli(row.CONTENTS_FACTOR))), RInt(2000))
            IN  Resolved(t) =>
                    /\ t.POLLUTANT \in DOMAIN pounds[i]
                    /\ pounds[i][t.POLLUTANT]
                         = RMul(RMul(fuel, Milli(row.CONSUMPTION_FACTOR)), ef)

\* C1 witness: a run that computed a non-zero pound value
C1_Witness ==
    /\ pc = "estimated"
    /\ \E i \in 1..Len(pounds) : \E p \in DOMAIN pounds[i] :
           ~IsRNaN(pounds[i][p]) /\ pounds[i][p].n > 0

\* the documented fractions (thousandths), by preset name as the caller wrote it
DocumentedFraction(sc, k) ==
    CASE sc = "HOLDER"            -> <<0, 0, 0, 800, 800>>[k]
      [] sc \in {"DINS3", "dins3"} -> <<0, 0, 0, 500, 950>>[k]
      [] sc = "DINS5"             -> <<0, 50, 175, 380, 755>>[k]
      [] sc = "CARB"              -> <<0, 70, 70, 70, 70>>[k]

Flagged(i) ==
    \E k \in 1..Len(log) : log[k].msg = "Unrecognized damage" /\ log[k].val = i

\* C3: a record whose damage label is not one of the five recognized labels
\* keeps an unset consumption fraction and is flagged.
C3_UnrecognizedUnsetAndFlagged ==
    pc = "estimated" =>
        \A i \in 1..Len(emissions_gdf.rows) :
            emissions_gdf.rows[i].DAMAGE \notin Range(DamageLabels) =>
                /\ emissions_gdf.rows[i].CONSUMPTION_FACTOR = NaN
                /\ Flagged(i)

\* the identifiers of the factor table that carry a factor
Factored == {args.ef_df[k].POLLUTANT :
                k \in {j \in 1..Len(args.ef_df) : args.ef_df[j].STRUCTURE_GKG # NaN}}

\* the requested identifiers that the factor table does not resolve
Absent ==
    IF IsStr(args.pollutants) THEN {}
    ELSE Range(args.pollutants.list) \ Factored

\* the arguments with the unresolved identifiers taken out of the request
WithoutAbsent ==
    [args EXCEPT !.pollutants =
        [list |-> SelectSeq(args.pollutants.list, LAMBDA p : p \in Factored)]]

\* the run printed the request with p in it and the returned list without p
OmissionLogged(said, p) ==
    /\ \E k \in 1..Len(said) :
           said[k].msg = "Requested pollutants" /\ p \in Range(said[k].val.list)
    /\ \E k \in 1..Len(said) :
           said[k].msg = "Returned pollutants" /\ p \notin Range(said[k].val)

\* C22: a call that requests a pollutant the factor table does not resolve
\* ends without error wherever the call without that pollutant does, returns
\* the table that call returns (so no column for the absent pollutant), and
\* prints the request and the returned pollutants; with no requested
\* pollutant resolved the result has one row per record and no E_ column.
C22_AbsentPollutantOmitted ==
    [][(Absent # {} /\ EstimateEmissions(structure_df, WithoutAbsent).error = "none")
          => /\ pc' = "estimated"
             /\ emissions_gdf' = EstimateEmissions(structure_df, WithoutAbsent).out
             /\ \A p \in Absent :
                    /\ ECol(p) \notin Range(emissions_gdf'.cols)
                    /\ OmissionLogged(log', p)
             /\ Absent = Range(args.pollutants.list) =>
                    /\ Len(emissions_gdf'.rows) = Len(structure_df.rows)
                    /\ \A k \in 1..Len(args.ef_df) :
                           ECol(args.ef_df[k].POLLUTANT) \notin Range(emissions_gdf'.cols)]_vars

\* a call that asked for CO and for two pollutants without a factor returned
\* the CO column
C22_Witness ==
    /\ pc = "estimated"
    /\ {"PO", "NOx"} \subseteq Absent
    /\ "E_CO_TN" \in Range(emissions_gdf.cols)
    /\ Len(emissions_gdf.rows) > 0

\* C23: a second call on the same input table with the same arguments
\* returns the table the first call returned (rows, columns and their order,
\* values), although the first call wrote columns into the input table.
C23_SecondRunIdentical ==
    pc = "estimated" =>
        /\ EstimateEmissions(structure_df, args).error = "none"
        /\ EstimateEmissions(structure_df, args).out = emissions_gdf
        /\ EstimateEmissions(structure_df, args).pounds = pounds

\* the first call wrote its columns into the input table and returned
\* non-zero emissions
C23_Witness ==
    /\ pc = "estimated"
    /\ HasCol(structure_df, "CONSUMPTION_FACTOR") /\ HasCol(structure_df, "bsdb_sqft")
    /\ \E i \in 1..Len(emissions_gdf.rows) :
           /\ structure_df.rows[i].CONSUMPTION_FACTOR # NaN
           /\ \E c \in DOMAIN emissions_gdf.rows[i].E : emissions_gdf.rows[i].E[c] > 0

\* C24: a record with floor area 0 has emission 0 for every pollutant of the
\* result, whatever the factors and the consumption fraction, an unset
\* fraction included.
C24_ZeroAreaZeroEmission ==
    pc = "estimated" =>
        \A i \in 1..Len(emissions_gdf.rows) :
            emissions_gdf.rows[i].SQFT = 0 =>
                \A c \in DOMAIN emissions_gdf.rows[i].E : emissions_gdf.rows[i].E[c] = 0

\* v thousandths of a ton is the pound value lb over 2000, rounded to 3
\* decimals (halves to the even digit); a missing value stays missing
IsTonsOf(v, lb) ==
    IF IsRNaN(lb) THEN v = NaN
    ELSE LET off == 2 * lb.d * v - lb.n
         IN  /\ v # NaN
             /\ -lb.d <= off /\ off <= lb.d
             /\ (off = lb.d \/ off = -lb.d) => v % 2 = 0

\* C26: the result has one row per input record, in the order of the input;
\* each row has, for every resolved pollutant and for nothing else, a ton
\* column holding the pound value / 2000 rounded to 3 decimals; no pound
\* column is left.
C26_OneRowPerRecordInTons ==
    pc = "estimated" =>
        /\ Len(emissions_gdf.rows) = Len(structure_df.rows)
        /\ \A i \in 1..Len(emissions_gdf.rows) :
               /\ emissions_gdf.rows[i].DAMAGE = structure_df.rows[i].damage
               /\ emissions_gdf.rows[i].SQFT = structure_df.rows[i].sqft
               /\ emissions_gdf.rows[i].CAT = structure_df.rows[i].cat
               /\ DOMAIN emissions_gdf.rows[i].E = {ECol(p) : p \in DOMAIN pounds[i]}
               /\ \A p \in DOMAIN pounds[i] :
                      IsTonsOf(emissions_gdf.rows[i].E[ECol(p)], pounds[i][p])
        /\ {c \in Range(emissions_gdf.cols) : c \notin Range(out_cols)}
               = {ECol(t.POLLUTANT) : t \in {u \in Range(args.ef_df) : Resolved(u)}}
        /\ \A t \in Range(args.ef_df) :
               ("E_" \o Upper(t.POLLUTANT)) \notin Range(emissions_gdf.cols)

\* a result of two rows with a ton value that the rounding changed
C26_Witness ==
    /\ pc = "estimated"
    /\ Len(emissions_gdf.rows) = 2
    /\ \E i \in 1..2 : \E p \in DOMAIN pounds[i] :
           /\ ~IsRNaN(pounds[i][p])
           /\ emissions_gdf.rows[i].E[ECol(p)] > 0
           /\ 2 * pounds[i][p].d * emissions_gdf.rows[i].E[ECol(p)] # pounds[i][p].n

\* the request names the row of the factor table when letter case is
\* ignored: one of the listed identifiers, or the ALL sentinel
RequestedIgnoringCase(t) ==
    IF IsStr(args.pollutants) THEN Upper(args.pollutants.str) = "ALL"
    ELSE \E k \in 1..Len(args.pollutants.list) :
             Upper(args.pollutants.list[k]) = Upper(t.POLLUTANT)

\* C21: the requested pollutants are resolved against the factor table
\* ignoring letter case, ALL in any letter case selects every pollutant with
\* a factor, and a pollutant without a factor gets no column.
C21_CaseInsensitiveResolution ==
    pc # "loaded" =>
        \A k \in 1..Len(args.ef_df) :
            LET t == args.ef_df[k]
            IN  /\ (RequestedIgnoringCase(t) /\ t.STRUCTURE_GKG # NaN) =>
                     /\ error # "TypeError"
                     /\ pc = "estimated" => ECol(t.POLLUTANT) \in Range(emissions_gdf.cols)
                /\ (pc = "estimated" /\ t.STRUCTURE_GKG = NaN) =>
                     ECol(t.POLLUTANT) \notin Range(emissions_gdf.cols)

-----------------------------------------------------------------------------
(* aggregated_report *)

\* name -> [column, priority]
aggregate_cols ==
    [n \in {"INCIDENT", "MONTH", "YEAR", "COABDIS", "COUNTY", "AIR DISTRICT",
            "AIR DISTRICT ID", "AIR BASIN", "AOI_INDEX"} |->
        CASE n = "INCIDENT"        -> <<"INCIDENTNAME", 8>>
          [] n = "MONTH"           -> <<"MONTH", 7>>
          [] n = "YEAR"            -> <<"YEAR", 6>>
          [] n = "COABDIS"         -> <<"COABDIS", 5>>
          [] n = "COUNTY"          -> <<"COUNTY", 4>>
          [] n = "AIR DISTRICT"    -> <<"AIR_DISTRICT", 3>>
          [] n = "AIR DISTRICT ID" -> <<"DISA_ID", 3>>
          [] n = "AIR BASIN"       -> <<"AIR_BASIN", 2>>
          [] n = "AOI_INDEX"       -> <<"AOI_INDEX", 8>>]

\* an aggregates argument is None or [list |-> the names]
None == [none |-> TRUE]

List(names) == [list |-> names]

IsNone(x) == "none" \in DOMAIN x

\* not aggregates
Falsy(aggregates) == IsNone(aggregates) \/ aggregates.list = <<>>

UpperAll(names) == [i \in 1..Len(names) |-> Upper(names[i])]

\* (mutant) YEAR not added for MONTH
ResolvedNoYear(aggregates) ==
    IF Falsy(aggregates) THEN <<"YEAR", "INCIDENT">> ELSE UpperAll(aggregates.list)

\* lines 72-81: the names the loop of line 84 runs over
ResolvedAggregates(aggregates) ==
    IF Falsy(aggregates) THEN <<"YEAR", "INCIDENT">>
    ELSE LET up == UpperAll(aggregates.list)
         IN  IF "MONTH" \in Range(up) /\ "YEAR" \notin Range(up)
             THEN Append(up, "YEAR")
             ELSE up

RECURSIVE StableSort(_)
\* sorted(group_columns, key=lambda x: x[1]): ascending, ties in list order
StableSort(s) ==
    IF s = <<>> THEN <<>>
    ELSE LET k == CHOOSE i \in 1..Len(s) :
                    /\ \A j \in 1..Len(s) : s[i][2] <= s[j][2]
                    /\ \A j \in 1..(i - 1) : s[j][2] > s[i][2]
         IN  <<s[k]>> \o StableSort(SubSeq(s, 1, k - 1) \o SubSeq(s, k + 1, Len(s)))

\* lines 83-92
SortedColumns(names) ==
    LET known == SelectSeq(names, LAMBDA a : a \in DOMAIN aggregate_cols)
        group_columns == [i \in 1..Len(known) |-> aggregate_cols[known[i]]]
        ordered == StableSort(group_columns)
    IN  [i \in 1..Len(ordered) |-> ordered[i][1]]

\* the value of a grouping column in a row of the emissions table
\* (lines 55-57: MONTH and YEAR come from START_DATE)
ColValue(row, c) ==
    CASE c = "INCIDENTNAME" -> row.INCIDENTNAME
      [] c = "MONTH"        -> IF row.START_DATE = NaN THEN NaN ELSE row.START_DATE % 100
      [] c = "YEAR"         -> IF row.START_DATE = NaN THEN NaN ELSE row.START_DATE \div 100
      [] c = "COABDIS"      -> row.COABDIS
      [] c = "COUNTY"       -> row.COUNTY
      [] c = "AIR_DISTRICT" -> row.AIR_DISTRICT
      [] c = "DISA_ID"      -> row.DISA_ID
      [] c = "AIR_BASIN"    -> row.AIR_BASIN
      [] c = "AOI_INDEX"    -> row.AOI_INDEX

GroupKey(row, columns) == [i \in 1..Len(columns) |-> ColValue(row, columns[i])]

\* groupby drops the rows with a missing value in a grouping column
HasKey(row, columns) == \A i \in 1..Len(columns) : ColValue(row, columns[i]) # NaN

LexLess(x, y) ==
    \E i \in 1..Len(x) : x[i] < y[i] /\ \A j \in 1..(i - 1) : x[j] = y[j]

RECURSIVE SortKeys(_)
\* the keys of a set in ascending order
SortKeys(S) ==
    IF S = {} THEN <<>>
    ELSE LET m == CHOOSE x \in S : \A y \in S \ {x} : LexLess(x, y)
         IN  <<m>> \o SortKeys(S \ {m})

RECURSIVE SumSkipNaN(_, _, _)
\* sum of f[i] for i in idx, skipping NaN
SumSkipNaN(f, idx, i) ==
    IF i > Len(idx) THEN 0
    ELSE (IF f[idx[i]] = NaN THEN 0 ELSE f[idx[i]]) + SumSkipNaN(f, idx, i + 1)

\* (mutant) rounding down
Round2Floor(v) == v \div 10

\* round(x, 2) of a value in thousandths, in hundredths
Round2(v) == RoundScaled(Rat(v, 1000), 100)

\* (mutant) undamaged structures counted too
ImpactedInclusive(row) == row.CONSUMPTION_FACTOR >= 0

\* line 98: the rows that count as damaged structures
Impacted(row) == row.CONSUMPTION_FACTOR > 0

IsEColumn(c) == c \in {ECol(p) : p \in {"CO", "NOx", "PM", "PO"}}

\* The whole call.  Returns
\*   error: the exception raised, or "none";
\*   gdf:   the caller's table when the call ends (lines 55-57 write it);
\*   out:   the returned summary: cols, and rows [key, E, DAMAGED_STRUCTURES]
\*          with key the values of the grouping columns in order and E in
\*          hundredths of a ton;
\*   said:  what it printed.
AggregatedReport(gdf, aggregates) ==
    LET e_columns == SelectSeq(gdf.cols, IsEColumn)
        gdf1   == [gdf EXCEPT !.cols = AddCol(AddCol(gdf.cols, "MONTH"), "YEAR")]
        names  == ResolvedAggregates(aggregates)
        warned == SelectSeq(names, LAMBDA a : a \notin DOMAIN aggregate_cols)
        said   == (IF Falsy(aggregates)
                   THEN <<[msg |-> "Default aggregates", val |-> names]>> ELSE <<>>)
                  \o [i \in 1..Len(warned) |->
                        [msg |-> "Unknown aggregate ignored", val |-> warned[i]]]
        sorted_columns == SortedColumns(names)
        n      == Len(gdf.rows)
        inGrp  == [i \in 1..n |-> HasKey(gdf.rows[i], sorted_columns)]
        keys   == SortKeys({GroupKey(gdf.rows[i], sorted_columns) :
                              i \in {j \in 1..n : inGrp[j]}})
        member(k) == SelectIdx([i \in 1..n |->
                        inGrp[i] /\ GroupKey(gdf.rows[i], sorted_columns) = k], 1, n)
        damaged(k) == SelectIdx([i \in 1..n |->
                        /\ inGrp[i]
                        /\ GroupKey(gdf.rows[i], sorted_columns) = k
                        /\ Impacted(gdf.rows[i])], 1, n)
        \* lines 95-106: sums, the left merge of the counts, round(2)
        agg_df == [g \in 1..Len(keys) |->
                     [key |-> keys[g],
                      E |-> [c \in Range(e_columns) |->
                               Round2(SumSkipNaN([i \in 1..n |-> gdf.rows[i].E[c]],
                                                 member(keys[g]), 1))],
                      DAMAGED_STRUCTURES |->
                          IF damaged(keys[g]) = <<>> THEN NaN
                          ELSE Len(damaged(keys[g]))]]
        \* line 113
        agg_out_rows == SelectSeq(agg_df, LAMBDA r : r.DAMAGED_STRUCTURES > 0)
    IN  IF sorted_columns = <<>>
        THEN [error |-> "ValueError", gdf |-> gdf1, out |-> NoTable, said |-> said]
        ELSE IF \E i \in 1..Len(sorted_columns) : ~HasCol(gdf1, sorted_columns[i])
        THEN [error |-> "KeyError", gdf |-> gdf1, out |-> NoTable, said |-> said]
        ELSE IF ~HasCol(gdf1, "CONSUMPTION_FACTOR")
        THEN [error |-> "KeyError", gdf |-> gdf1, out |-> NoTable, said |-> said]
        ELSE [error |-> "none", gdf |-> gdf1,
              out |-> [cols |-> sorted_columns \o e_columns \o <<"DAMAGED_STRUCTURES">>,
                       rows |-> agg_out_rows],
              said |-> said]

-----------------------------------------------------------------------------
(* vehicle_calculator *)

\* (mutant) the vehicle count taken over every damaged structure
NDestroyedAny(rows) ==
    Cardinality({i \in 1..Len(rows) : rows[i].CONSUMPTION_FACTOR > 0})

\* (mutant) a structure at exactly 0.5 counted as destroyed
NDestroyedInclusive(rows) ==
    Cardinality({i \in 1..Len(rows) : rows[i].CONSUMPTION_FACTOR >= 500})

\* line 72: the number of rows with CONSUMPTION_FACTOR > 0.5
NDestroyed(rows) ==
    Cardinality({i \in 1..Len(rows) : rows[i].CONSUMPTION_FACTOR > 500})

\* lines 68-75: n_vehicles for a recognised mode (cr_value is a rational)
NVehicles(rows, mode, cr_value) ==
    IF mode = "COUNT" THEN cr_value
    ELSE RMul(RInt(NDestroyed(rows)), cr_value)

vehicle_cols ==
    <<"POLLUTANT", "VEHICLE_GFIRE", "VEHICLE_GKG", "VEHICLES",
      "TOTAL_VEHICLE_EMISSIONS_G", "TOTAL_VEHICLE_EMISSIONS_TN">>

\* line 108, in hundredths of a kilogram
TotalKg(gfire, n_vehicles) == RoundScaled(RDiv(RMul(gfire, n_vehicles), RInt(1000)), 100)

\* line 109, in hundredths of a ton
TotalTn(kg) ==
    IF kg = NaN THEN NaN ELSE RoundScaled(RDiv(Rat(kg, 100), Rat(9072, 10)), 100)

\* (mutant) the per-kilogram factor taken as the per-vehicle factor
VehicleGfireUnscaled(r, derive) ==
    IF derive THEN r["VEHICLE_GKG"] ELSE r["VEHICLE_GFIRE"]

\* lines 93-95: the per-vehicle factor of a row of the factor table; derive
\* says that VEHICLE_GFIRE is absent and VEHICLE_GKG present
VehicleGfire(r, derive) ==
    IF derive THEN RMul(r["VEHICLE_GKG"], RInt(461)) ELSE r["VEHICLE_GFIRE"]

\* The whole call on emissions table gdf with arguments a; the factor table
\* a.vef_df is what read_excel returns: [cols, rows], a row a function on cols,
\* factors rationals.  Returns error, out (a row of out is a function on its
\* cols) and said.
VehicleCalculator(gdf, a) ==
    LET mode   == Upper(a.count_or_ratio)
        noMode == mode \notin {"COUNT", "RATIO"}
        noCF   == mode = "RATIO" /\ ~HasCol(gdf, "CONSUMPTION_FACTOR")
        n_vehicles == NVehicles(gdf.rows, mode, a.cr_value)
        vcols  == a.vef_df.cols
        derive == "VEHICLE_GFIRE" \notin Range(vcols) /\ "VEHICLE_GKG" \in Range(vcols)
        \* lines 91-95
        cols1  == Append(vcols, "VEHICLES")
                  \o (IF derive THEN <<"VEHICLE_GFIRE">> ELSE <<>>)
        gfire(r) == VehicleGfire(r, derive)
        asked  == IF IsAll(a.vpollutants) THEN a.vef_df.rows
                  ELSE SelectSeq(a.vef_df.rows,
                         LAMBDA r : r["POLLUTANT"] \in Range(a.vpollutants.list))
        VEF    == SelectSeq(asked, LAMBDA r : ~IsRNaN(gfire(r)))
        avail  == Unique([i \in 1..Len(VEF) |-> VEF[i]["POLLUTANT"]])
        \* lines 107-109
        cols2  == cols1 \o <<"EMISSION FACTOR", "TOTAL_VEHICLE_EMISSIONS_KG",
                             "TOTAL_VEHICLE_EMISSIONS_TN">>
        full(r) == [c \in Range(cols2) |->
                      CASE c = "VEHICLES" -> n_vehicles
                        [] c = "VEHICLE_GFIRE" -> gfire(r)
                        [] c = "EMISSION FACTOR" -> gfire(r)
                        [] c = "TOTAL_VEHICLE_EMISSIONS_KG" -> TotalKg(gfire(r), n_vehicles)
                        [] c = "TOTAL_VEHICLE_EMISSIONS_TN" ->
                               TotalTn(TotalKg(gfire(r), n_vehicles))
                        [] OTHER -> r[c]]
        \* lines 111-112
        kept   == SelectSeq(vehicle_cols, LAMBDA c : c \in Range(cols2))
        asked_msg == [msg |-> "Requested pollutants", val |-> a.vpollutants]
        count_msg == [msg |-> "vehicles", val |-> n_vehicles]
    IN  IF noCF
        THEN [error |-> "KeyError", out |-> NoTable, said |-> <<>>]
        ELSE IF noMode
        THEN [error |-> "UnboundLocalError", out |-> NoTable, said |-> <<asked_msg>>]
        ELSE IF IsStr(a.vpollutants) /\ ~IsAll(a.vpollutants)
        THEN [error |-> "TypeError", out |-> NoTable, said |-> <<count_msg, asked_msg>>]
        ELSE IF "VEHICLE_GFIRE" \notin Range(cols1)
        THEN [error |-> "KeyError", out |-> NoTable, said |-> <<count_msg, asked_msg>>]
        ELSE [error |-> "none",
              out |-> [cols |-> kept,
                       rows |-> [i \in 1..Len(VEF) |->
                                   [c \in Range(kept) |-> full(VEF[i])[c]]]],
              said |-> <<count_msg, asked_msg,
                         [msg |-> "Returned pollutants", val |-> avail]>>]

-----------------------------------------------------------------------------
(* sweep_estimator and sweep_predictor *)

VALID_AGG_FIELDS ==
    {"YEAR", "MONTH", "INCIDENT", "COABDIS", "COUNTY", "AIR DISTRICT",
     "AIR DISTRICT ID", "AIR BASIN", "AOI_INDEX"}

\* the arguments the drivers pass on when the caller gives none
SweepEmissionArgs ==
    [structure_consumption |-> "DINS3", frame_factor |-> [str |-> "HOLDER"],
     contents_factor |-> [str |-> "HOLDER"], ef_df |-> EFTables.HOLDER,
     pollutants |-> [list |-> <<"CO", "NOx", "SOx", "PM", "TOG">>]]

\* vehicle factor tables as read_excel returns them
VEFTables ==
    [GFIRE |-> [cols |-> <<"POLLUTANT", "VEHICLE_GFIRE">>,
                rows |-> <<[POLLUTANT |-> "CO", VEHICLE_GFIRE |-> RInt(10)],
                           [POLLUTANT |-> "NOx", VEHICLE_GFIRE |-> Rat(1805, 10)],
                           [POLLUTANT |-> "PM", VEHICLE_GFIRE |-> RNaN]>>],
     GKG   |-> [cols |-> <<"POLLUTANT", "STRUCTURE_GKG", "VEHICLE_GKG">>,
                rows |-> <<[POLLUTANT |-> "CO", STRUCTURE_GKG |-> RInt(2),
                            VEHICLE_GKG |-> Rat(25, 10)],
                           [POLLUTANT |-> "PM", STRUCTURE_GKG |-> RInt(1),
                            VEHICLE_GKG |-> RNaN]>>],
     BOTH  |-> [cols |-> <<"POLLUTANT", "VEHICLE_GKG", "VEHICLE_GFIRE">>,
                rows |-> <<[POLLUTANT |-> "CO", VEHICLE_GKG |-> Rat(25, 10),
                            VEHICLE_GFIRE |-> RInt(10)],
                           [POLLUTANT |-> "PM", VEHICLE_GKG |-> RInt(1),
                            VEHICLE_GFIRE |-> RNaN]>>],
     NONE  |-> [cols |-> <<"POLLUTANT", "STRUCTURE_GKG">>,
                rows |-> <<[POLLUTANT |-> "CO", STRUCTURE_GKG |-> RInt(2)]>>]]

SweepVehicleArgs ==
    [count_or_ratio |-> "RATIO", cr_value |-> Rat(144, 100), vef_df |-> VEFTables.GKG,
     vpollutants |-> [list |-> <<"CO", "NOx", "SOx", "PM">>]]

\* the emissions table as the aggregator receives it: the packaged
\* sweep.emissions keeps the DISA_ID and AOI_INDEX columns that
\* aggregate_cols groups by
WithAreaColumns(t) == [t EXCEPT !.cols = AddCol(AddCol(t.cols, "DISA_ID"), "AOI_INDEX")]

\* lines 166-176 of sweep_estimator, 100-110 of sweep_predictor: the fields
\* after the default, and whether the loop raises
SweepFields(aggregate_fields, default) ==
    IF IsNone(aggregate_fields) THEN default ELSE aggregate_fields

\* (mutant) only the first name is looked at
SweepRejectsFirst(fields) ==
    fields.list # <<>> /\ Upper(fields.list[1]) \notin VALID_AGG_FIELDS

\* the loop of lines 169-176 (100-110): any name outside the enumeration
SweepRejects(fields) ==
    \E i \in 1..Len(fields.list) : Upper(fields.list[i]) \notin VALID_AGG_FIELDS

\* the stages of a driver after validation, each on the results so far
SweepResult(est, agg, veh) ==
    [error |-> veh.error, input |-> est.input, pounds |-> est.pounds,
     gdf |-> agg.gdf, agg |-> agg.out, veh |-> veh.out,
     said |-> est.said \o agg.said \o veh.said]

SweepVehicles(est, agg) ==
    IF agg.error # "none"
    THEN [error |-> agg.error, input |-> est.input, pounds |-> est.pounds,
          gdf |-> agg.gdf, agg |-> NoTable, veh |-> NoTable,
          said |-> est.said \o agg.said]
    ELSE SweepResult(est, agg, VehicleCalculator(agg.gdf, SweepVehicleArgs))

SweepAggregate(est, fields) ==
    IF est.error # "none"
    THEN [error |-> est.error, input |-> est.input, pounds |-> <<>>,
          gdf |-> NoTable, agg |-> NoTable, veh |-> NoTable, said |-> est.said]
    ELSE SweepVehicles(est, AggregatedReport(WithAreaColumns(est.out), fields))

\* The whole driver on the filtered table df: validation, estimate_emissions,
\* aggregated_report, vehicle_calculator.
Sweep(df, aggregate_fields, default) ==
    IF SweepRejects(SweepFields(aggregate_fields, default))
    THEN [error |-> "ValueError", input |-> df, pounds |-> <<>>, gdf |-> NoTable,
          agg |-> NoTable, veh |-> NoTable, said |-> <<>>]
    ELSE SweepAggregate(EstimateEmissions(df, SweepEmissionArgs),
                        SweepFields(aggregate_fields, default))

-----------------------------------------------------------------------------
(* Specification of aggregated_report: called on an emissions table, and   *)
(* reached through the two drivers.                                        *)

Big == [sqft |-> 1500, cat |-> "COMMS"]

AggRows ==
    {StructureRow(1, "Major (26-50%)", Big), StructureRow(1, "No Damage", Big),
     StructureRow(2, "Destroyed (>50%)", Big), StructureRow(2, "Inaccessible", Big),
     StructureRow(3, "Major (26-50%)", Big)}

AggNames == VALID_AGG_FIELDS \cup {"month", "STATE"}

\* aggregates arguments: None, or up to MaxAggs names, no dimension twice
Requests ==
    {None} \cup
    UNION {{List(r) : r \in {q \in [1..k -> AggNames] :
              \A i, j \in 1..k : i # j => Upper(q[i]) # Upper(q[j])}} : k \in 0..MaxAggs}

SweepRequests ==
    {None, List(<<>>), List(<<"COUNTY">>), List(<<"month">>), List(<<"STATE">>),
     List(<<"COUNTY", "STATE">>), List(<<"AOI_INDEX", "INCIDENT">>)}

InitAggregate ==
    /\ pc = "loaded"
    /\ error = "none"
    /\ log = <<>>
    /\ args = NoArgs
    /\ structure_df \in TablesOver(AggRows, input_cols)
    /\ pounds = <<>>
    /\ emissions_gdf = NoTable
    /\ agg_out = NoTable
    /\ vehicle_table = NoTable
    /\ filt_bsdb = NoTable

\* estimate_emissions for a report
ReportEstimate ==
    /\ pc = "loaded"
    /\ \E r \in {EstimateEmissions(structure_df, SweepEmissionArgs)} :
           /\ pc' = IF r.error = "none" THEN "estimated" ELSE "error"
           /\ error' = r.error
           /\ log' = r.said
           /\ structure_df' = r.input
           /\ pounds' = r.pounds
           /\ emissions_gdf' = IF r.error = "none" THEN WithAreaColumns(r.out) ELSE NoTable
    /\ args' = [entry |-> "estimate_emissions"]
    /\ UNCHANGED <<agg_out, vehicle_table, filt_bsdb>>

\* aggregated_report called by the user
AggregateCall(aggregates) ==
    /\ pc = "estimated"
    /\ \E r \in {AggregatedReport(emissions_gdf, aggregates)} :
           /\ pc' = IF r.error = "none" THEN "aggregated" ELSE "error"
           /\ error' = r.error
           /\ log' = r.said
           /\ emissions_gdf' = r.gdf
           /\ agg_out' = r.out
    /\ args' = [entry |-> "aggregated_report", aggregates |-> aggregates]
    /\ UNCHANGED <<structure_df, pounds, vehicle_table, filt_bsdb>>

SweepCall(entry, aggregate_fields, default) ==
    /\ pc = "loaded"
    /\ \E r \in {Sweep(structure_df, aggregate_fields, default)} :
           /\ pc' = IF r.error = "none" THEN "done" ELSE "error"
           /\ error' = r.error
           /\ log' = r.said
           /\ structure_df' = r.input
           /\ pounds' = r.pounds
           /\ emissions_gdf' = r.gdf
           /\ agg_out' = r.agg
           /\ vehicle_table' = r.veh
    /\ args' = [entry |-> entry, aggregates |-> aggregate_fields]
    /\ UNCHANGED filt_bsdb

SweepEstimator(aggregate_fields) ==
    SweepCall("sweep_estimator", aggregate_fields, List(<<"YEAR", "INCIDENT">>))

SweepPredictor(aggregate_fields) ==
    SweepCall("sweep_predictor", aggregate_fields, List(<<"AOI_INDEX">>))

NextAggregate ==
    \/ ReportEstimate
    \/ \E a \in Requests : AggregateCall(a)
    \/ \E a \in SweepRequests : SweepEstimator(a)
    \/ \E a \in SweepRequests : SweepPredictor(a)

SpecAggregate == InitAggregate /\ [][NextAggregate]_vars

-----------------------------------------------------------------------------
(* Claims about aggregated_report *)

\* a summary is in the state
Reported == pc \in {"aggregated", "done"}

\* the summary in the state came from a direct call with a list of names
DirectReport ==
    pc = "aggregated" /\ args.entry = "aggregated_report" /\ ~IsNone(args.aggregates)

OrderingsOf(l) == {q \in [1..Len(l) -> Range(l)] : Range(q) = Range(l)}

\* the grouping columns and the pollutant columns of a summary
GroupColsOf(out) ==
    SelectSeq(out.cols, LAMBDA c : ~IsEColumn(c) /\ c # "DAMAGED_STRUCTURES")

EColsOf(out) == SelectSeq(out.cols, IsEColumn)

RECURSIVE SumOver(_, _)
\* sum of f over the index set S
SumOver(f, S) ==
    IF S = {} THEN 0
    ELSE LET i == CHOOSE x \in S : TRUE IN f[i] + SumOver(f, S \ {i})

\* the rows of the emissions table that fall in the group of summary row r
RowsOf(r) ==
    {i \in 1..Len(emissions_gdf.rows) :
        GroupKey(emissions_gdf.rows[i], GroupColsOf(agg_out)) = r.key}

RowsDamaged(r) == {i \in RowsOf(r) : emissions_gdf.rows[i].CONSUMPTION_FACTOR > 0}

\* C4: every ordering of the requested dimensions gives the same summary:
\* the same columns in the same order and the same rows.
C4_OrderIndependent ==
    DirectReport =>
        \A q \in OrderingsOf(args.aggregates.list) :
            AggregatedReport(emissions_gdf, List(q)).out = agg_out

\* C5 as claimed: the pollutant's totals over the retained groups add up to
\* the pollutant over the rows with consumption > 0 of those groups.
C5_TotalsAddUp ==
    DirectReport =>
        \A c \in Range(EColsOf(agg_out)) :
            10 * SumOver([g \in 1..Len(agg_out.rows) |-> agg_out.rows[g].E[c]],
                         1..Len(agg_out.rows))
              = SumOver([i \in 1..Len(emissions_gdf.rows) |-> emissions_gdf.rows[i].E[c]],
                        UNION {RowsDamaged(agg_out.rows[g]) : g \in 1..Len(agg_out.rows)})

\* C5 amended: each retained group's total is the pollutant summed over the
\* group's rows with consumption > 0 and rounded to 2 decimals; rows with
\* consumption 0 or unset add nothing.
C5_GroupTotalsRounded ==
    Reported =>
        \A g \in 1..Len(agg_out.rows) : \A c \in Range(EColsOf(agg_out)) :
            agg_out.rows[g].E[c]
              = RoundScaled(
                  Rat(SumOver([i \in 1..Len(emissions_gdf.rows) |->
                                 emissions_gdf.rows[i].E[c]],
                              RowsDamaged(agg_out.rows[g])), 1000), 100)

\* C5 witness: a retained group holding a damaged row and a row with
\* consumption 0 or unset, whose total is not a whole number of hundredths
\* before rounding
C5_Witness ==
    /\ DirectReport
    /\ \E g \in 1..Len(agg_out.rows) : \E c \in Range(EColsOf(agg_out)) :
           /\ RowsDamaged(agg_out.rows[g]) # RowsOf(agg_out.rows[g])
           /\ SumOver([i \in 1..Len(emissions_gdf.rows) |-> emissions_gdf.rows[i].E[c]],
                      RowsDamaged(agg_out.rows[g])) % 10 # 0

\* C6: a group is in the summary exactly when one of its rows has
\* consumption > 0; DAMAGED_STRUCTURES counts those rows; no key twice.
\* (A group is what groupby forms: rows with a value in every grouping column.)
C6_GroupsWithDamage ==
    Reported =>
        /\ \A g \in 1..Len(agg_out.rows) :
               /\ agg_out.rows[g].DAMAGED_STRUCTURES
                    = Cardinality(RowsDamaged(agg_out.rows[g]))
               /\ agg_out.rows[g].DAMAGED_STRUCTURES >= 1
        /\ \A i \in 1..Len(emissions_gdf.rows) :
               (/\ HasKey(emissions_gdf.rows[i], GroupColsOf(agg_out))
                /\ emissions_gdf.rows[i].CONSUMPTION_FACTOR > 0)
               => \E g \in 1..Len(agg_out.rows) : i \in RowsOf(agg_out.rows[g])
        /\ \A g, h \in 1..Len(agg_out.rows) :
               agg_out.rows[g].key = agg_out.rows[h].key => g = h

\* C6 witness: one group kept, and a group dropped because its row has
\* consumption 0
C6_Witness ==
    /\ DirectReport
    /\ Len(agg_out.rows) = 1
    /\ \E i \in 1..Len(emissions_gdf.rows) :
           /\ HasKey(emissions_gdf.rows[i], GroupColsOf(agg_out))
           /\ emissions_gdf.rows[i].CONSUMPTION_FACTOR = 0
           /\ i \notin RowsOf(agg_out.rows[1])

NamesAsked == IF IsNone(args.aggregates) THEN <<>> ELSE args.aggregates.list

\* the names of a request outside the enumeration, in any letter case
Unknown(names) == SelectSeq(names, LAMBDA a : a \notin VALID_AGG_FIELDS \cup {"month"})

Known(names) == SelectSeq(names, LAMBDA a : a \in VALID_AGG_FIELDS \cup {"month"})

AggregateEntry == "aggregates" \in DOMAIN args

IndexOf(seq, x) == CHOOSE i \in 1..Len(seq) : seq[i] = x

\* C8: when MONTH is asked for (in any letter case) the summary is grouped by
\* YEAR too; a summary with a MONTH column has a YEAR column before it.
C8_YearWithMonth ==
    Reported =>
        /\ (\E i \in 1..Len(NamesAsked) : NamesAsked[i] \in {"MONTH", "month"})
               => "MONTH" \in Range(agg_out.cols)
        /\ "MONTH" \in Range(agg_out.cols)
               => /\ "YEAR" \in Range(agg_out.cols)
                  /\ IndexOf(agg_out.cols, "YEAR") < IndexOf(agg_out.cols, "MONTH")

\* C8 witness: month asked in lower case without YEAR
C8_Witness ==
    /\ DirectReport
    /\ args.aggregates = List(<<"month">>)
    /\ Len(agg_out.rows) > 0
    /\ SubSeq(agg_out.cols, 1, 2) = <<"YEAR", "MONTH">>

\* the damaged-structure counts of the summary, added up
DamagedReported ==
    SumOver([i \in 1..Len(agg_out.rows) |-> agg_out.rows[i].DAMAGED_STRUCTURES],
            1..Len(agg_out.rows))

\* C30: for any grouping, the damaged-structure counts of the summary add up
\* to the number of records of the emissions table with a consumption
\* fraction above zero, records with a missing grouping value included.
C30_DamagedCountsAddUp ==
    Reported =>
        DamagedReported =
            Cardinality({i \in 1..Len(emissions_gdf.rows) : Impacted(emissions_gdf.rows[i])})

\* C25: the emissions table is not changed by the stage that receives it
\* (aggregated_report leaves its columns and values as estimate_emissions
\* returned them), and estimate_emissions does not change the table of its
\* caller.
C25_TablesLeftUnchanged ==
    [][/\ pc = "estimated" => emissions_gdf' = emissions_gdf
       /\ (pc = "loaded" /\ pc' = "estimated") => structure_df' = structure_df]_vars

-----------------------------------------------------------------------------
(* vehicle_calculator called by the user on an emissions table *)

VehicleRows == {StructureRow(1, d, Big) : d \in Damages}

VehiclePresets == {"DINS3", "DINS5"}

\* count_or_ratio, cr_value, factor table and vpollutants of a call
VehicleArgs ==
    {[count_or_ratio |-> m, cr_value |-> v, vef_df |-> VEFTables[t], vpollutants |-> p] :
        m \in {"RATIO", "ratio", "COUNT", "count", "BOTH"},
        v \in {Rat(144, 100), RInt(1024)},
        t \in {"GFIRE", "GKG", "BOTH", "NONE"},
        p \in {[str |-> "ALL"], [str |-> "CO"], [list |-> <<"CO", "NOx", "SOx", "PM">>]}}

InitVehicle ==
    /\ pc = "loaded"
    /\ error = "none"
    /\ log = <<>>
    /\ args = NoArgs
    /\ structure_df \in TablesOver(VehicleRows, input_cols)
    /\ pounds = <<>>
    /\ emissions_gdf = NoTable
    /\ agg_out = NoTable
    /\ vehicle_table = NoTable
    /\ filt_bsdb = NoTable

\* estimate_emissions before the vehicle estimate
VehicleEstimate(preset) ==
    /\ pc = "loaded"
    /\ \E r \in {EstimateEmissions(structure_df,
                    [SweepEmissionArgs EXCEPT !.structure_consumption = preset])} :
           /\ pc' = IF r.error = "none" THEN "estimated" ELSE "error"
           /\ error' = r.error
           /\ log' = r.said
           /\ structure_df' = r.input
           /\ pounds' = r.pounds
           /\ emissions_gdf' = IF r.error = "none" THEN r.out ELSE NoTable
    /\ args' = [entry |-> "estimate_emissions"]
    /\ UNCHANGED <<agg_out, vehicle_table, filt_bsdb>>

VehicleCall(a) ==
    /\ pc = "estimated"
    /\ \E r \in {VehicleCalculator(emissions_gdf, a)} :
           /\ pc' = IF r.error = "none" THEN "vehicles" ELSE "error"
           /\ error' = r.error
           /\ log' = r.said
           /\ vehicle_table' = r.out
    /\ args' = [entry |-> "vehicle_calculator", count_or_ratio |-> a.count_or_ratio,
                cr_value |-> a.cr_value, vef_df |-> a.vef_df,
                vpollutants |-> a.vpollutants]
    /\ UNCHANGED <<structure_df, pounds, emissions_gdf, agg_out, filt_bsdb>>

NextVehicle ==
    \/ \E preset \in VehiclePresets : VehicleEstimate(preset)
    \/ \E a \in VehicleArgs : VehicleCall(a)

SpecVehicle == InitVehicle /\ [][NextVehicle]_vars

-----------------------------------------------------------------------------
(* Claims about vehicle_calculator *)

\* the records of the emissions table with consumption above / at one half
Above == {i \in 1..Len(emissions_gdf.rows) : emissions_gdf.rows[i].CONSUMPTION_FACTOR > 500}

AtHalf == {i \in 1..Len(emissions_gdf.rows) : emissions_gdf.rows[i].CONSUMPTION_FACTOR = 500}

\* the vehicle count the call announced and wrote into VEHICLES
CountSaid == (CHOOSE m \in Range(log) : m.msg = "vehicles").val

\* 100 records, 40 at 0.9 and 60 at 0.2
Hundred == [i \in 1..100 |-> [CONSUMPTION_FACTOR |-> IF i <= 40 THEN 900 ELSE 200]]

\* C9: the vehicle count is the value in COUNT mode and the value times the
\* number of records with consumption strictly above 0.5 in RATIO mode (a
\* record at exactly 0.5 is not counted); 1.44 with 40 of 100 records above
\* gives 57.6.
C9_VehicleCount ==
    /\ pc = "vehicles" =>
         /\ CountSaid = IF args.count_or_ratio \in {"COUNT", "count"}
                        THEN args.cr_value
                        ELSE RMul(args.cr_value, RInt(Cardinality(Above)))
         /\ \A k \in 1..Len(vehicle_table.rows) : vehicle_table.rows[k]["VEHICLES"] = CountSaid
    /\ NVehicles(Hundred, "RATIO", Rat(144, 100)) = Rat(576, 10)

\* C9 witness: a RATIO call on a table with a record at exactly 0.5 and a
\* record above it, with a pollutant returned
C9_Witness ==
    /\ pc = "vehicles"
    /\ args.count_or_ratio \in {"RATIO", "ratio"}
    /\ AtHalf # {} /\ Above # {}
    /\ Len(vehicle_table.rows) > 0

\* C10: each returned pollutant has a total in kilograms, factor * count /
\* 1000 rounded to 2 decimals, and a total in tons, the kilograms / 907.2
\* rounded to 2 decimals.
C10_KgAndTnTotals ==
    pc = "vehicles" =>
        /\ "TOTAL_VEHICLE_EMISSIONS_KG" \in Range(vehicle_table.cols)
        /\ "TOTAL_VEHICLE_EMISSIONS_TN" \in Range(vehicle_table.cols)
        /\ \A k \in 1..Len(vehicle_table.rows) :
               LET r == vehicle_table.rows[k]
                   kg == RoundScaled(RDiv(RMul(r["VEHICLE_GFIRE"], CountSaid), RInt(1000)), 100)
               IN  /\ r["TOTAL_VEHICLE_EMISSIONS_KG"] = kg
                   /\ r["TOTAL_VEHICLE_EMISSIONS_TN"]
                        = RoundScaled(RDiv(Rat(kg, 100), Rat(9072, 10)), 100)

\* a call of vehicle_calculator is in the state
VehicleEntry == "vef_df" \in DOMAIN args

\* C11: without a VEHICLE_GFIRE column but with VEHICLE_GKG the per-vehicle
\* factor is VEHICLE_GKG * 461; a VEHICLE_GFIRE column is used unchanged;
\* with neither column the call fails and returns no table.
C11_PerVehicleFactor ==
    VehicleEntry =>
        LET cols == Range(args.vef_df.cols)
        IN  IF "VEHICLE_GFIRE" \notin cols /\ "VEHICLE_GKG" \notin cols
            THEN pc = "error" /\ vehicle_table = NoTable
            ELSE pc = "vehicles" =>
                   \A k \in 1..Len(vehicle_table.rows) :
                       \E j \in 1..Len(args.vef_df.rows) :
                           LET r == vehicle_table.rows[k]
                               t == args.vef_df.rows[j]
                           IN  /\ t["POLLUTANT"] = r["POLLUTANT"]
                               /\ r["VEHICLE_GFIRE"]
                                    = IF "VEHICLE_GFIRE" \in cols
                                      THEN t["VEHICLE_GFIRE"]
                                      ELSE RMul(t["VEHICLE_GKG"], RInt(461))

\* C11 witness: a table returned from factors given per kilogram only
C11_Witness ==
    /\ VehicleEntry
    /\ pc = "vehicles"
    /\ "VEHICLE_GFIRE" \notin Range(args.vef_df.cols)
    /\ Len(vehicle_table.rows) > 0
    /\ vehicle_table.rows[1]["VEHICLE_GFIRE"] = Rat(23050, 20)

\* C12: on one emissions table the structures counted for vehicles in RATIO
\* mode (consumption > 0.5) are never more than the damaged structures of the
\* aggregation (consumption > 0), and fewer whenever a record has
\* 0 < consumption <= 0.5.
C12_StricterThreshold ==
    (VehicleEntry /\ pc = "vehicles" /\ args.count_or_ratio \in {"RATIO", "ratio"}) =>
        LET damaged == Cardinality({i \in 1..Len(emissions_gdf.rows) :
                                       Impacted(emissions_gdf.rows[i])})
            between == \E i \in 1..Len(emissions_gdf.rows) :
                          /\ emissions_gdf.rows[i].CONSUMPTION_FACTOR > 0
                          /\ emissions_gdf.rows[i].CONSUMPTION_FACTOR <= 500
        IN  \E k \in 0..damaged :
                /\ CountSaid = RMul(args.cr_value, RInt(k))
                /\ between => k < damaged

\* C12 witness: a DINS3 'Major (26-50%)' record at 0.50 alone: one damaged
\* structure and no vehicle
C12_Witness ==
    /\ VehicleEntry /\ pc = "vehicles"
    /\ args.count_or_ratio = "RATIO"
    /\ Len(emissions_gdf.rows) = 1
    /\ emissions_gdf.rows[1].DAMAGE = "Major (26-50%)"
    /\ emissions_gdf.rows[1].CONSUMPTION_FACTOR = 500
    /\ CountSaid = RInt(0)

-----------------------------------------------------------------------------
(* filter_bsdb: the automated and the spatial filter.                       *)
(* A cell of a text column is [str |-> s], a missing cell [nan |-> TRUE], a *)
(* cell of a number column [int |-> n]; an argument that may be None is     *)
(* None or a record: [date |-> yyyymm], [year |-> y], [str |-> s];          *)
(* field_values is None or List of [str |-> s] / [int |-> n].               *)

\* lines 364-371: nickname -> column of the BSDB
field_nicknames ==
    [k \in {"Wildfire Name", "Incident Number", "County", "Air Basin",
            "Air District", "CoAbDis Code"} |->
        CASE k = "Wildfire Name"   -> "incidentname"
          [] k = "Incident Number" -> "incidentnum"
          [] k = "County"          -> "CO_NAME"
          [] k = "Air Basin"       -> "BASIN_NAME"
          [] k = "Air District"    -> "DIS_NAME"
          [] k = "CoAbDis Code"    -> "COABDIS"]

\* line 389: the table keyed by the upper-cased nicknames
field_nicknames_upper ==
    [u \in {Upper(k) : k \in DOMAIN field_nicknames} |->
        field_nicknames[CHOOSE k \in DOMAIN field_nicknames : Upper(k) = u]]

\* the names a record carries in place of the codes of its row
IncidentNames == <<"Camp", "Woolsey">>

CountyNames == <<"BUTTE", "NAPA">>

\* the columns of the BSDB the filters read, as the rows of the model hold them
BsdbCol(column) ==
    CASE column = "incidentname" -> "incidentname"
      [] column = "CO_NAME"      -> "county"
      [] column = "BASIN_NAME"   -> "basin_name"
      [] column = "DIS_NAME"     -> "dis_name"
      [] column = "COABDIS"      -> "coabdis"
      [] OTHER                   -> column

\* df[column] for one row
BsdbCell(row, column) ==
    CASE column = "incidentname" -> [str |-> IncidentNames[row.incidentname]]
      [] column = "CO_NAME"      -> IF row.county = NaN THEN [nan |-> TRUE]
                                    ELSE [str |-> CountyNames[row.county]]
      [] column = "COABDIS"      -> [int |-> row.coabdis]
      [] OTHER                   -> [int |-> row[BsdbCol(column)]]

\* whether the column holds text, so that .str applies
IsTextColumn(column) == column \in {"incidentname", "CO_NAME"}

\* the date stage with the end of the range left out
DateRowsExclusive(rows, start_date, end_date) ==
    SelectSeq(rows, LAMBDA r : r.clean_date >= start_date.date
                               /\ r.clean_date < end_date.date)

\* the date stage, lines 379 and 467: start <= clean_date <= end
DateRows(rows, start_date, end_date) ==
    SelectSeq(rows, LAMBDA r : r.clean_date >= start_date.date
                               /\ r.clean_date <= end_date.date)

\* the year stage left out
YearRowsAll(rows, selected_year) == rows

\* lines 401-402: the rows of the year
YearRows(rows, selected_year) ==
    SelectSeq(rows, LAMBDA r : r.clean_date \div 100 = selected_year.year)

\* line 407: the rows whose upper-cased cell is among the upper-cased values
ValueRows(rows, column, field_values) ==
    SelectSeq(rows, LAMBDA r :
        /\ "str" \in DOMAIN BsdbCell(r, column)
        /\ \E i \in 1..Len(field_values.list) :
               Upper(field_values.list[i].str) = Upper(BsdbCell(r, column).str))

\* what the filters print: a message and the row count it reports
Told(msg, rows) == [msg |-> msg, val |-> Len(rows)]

\* automated_filter.  Returns error, input (the caller's table when the call
\* ends: line 401 writes a year column into it when no date filter made a
\* copy), out (the filtered table) and said.
AutomatedFilter(df, a) ==
    LET dated    == a.apply_date_filter
        noBounds == dated /\ (IsNone(a.start_date) \/ IsNone(a.end_date))
        \* lines 374-382
        rows1    == IF dated THEN DateRows(df.rows, a.start_date, a.end_date)
                    ELSE df.rows
        said1    == IF dated THEN <<Told("rows after date filtering", rows1)>>
                    ELSE <<Told("No date filter applied", <<>>)>>
        \* lines 389-395
        unknown  == Upper(a.filter_field.str) \notin DOMAIN field_nicknames_upper
        selected_field == field_nicknames_upper[Upper(a.filter_field.str)]
        \* lines 398-403
        byYear   == selected_field = "incidentname" /\ ~dated
        rows2    == IF byYear THEN YearRows(rows1, a.selected_year) ELSE rows1
        cols2    == IF byYear THEN AddCol(df.cols, "year") ELSE df.cols
        said2    == IF byYear
                    THEN Append(said1, Told("rows after filtering by year", rows2))
                    ELSE said1
        \* lines 406-410
        values   == a.field_values.list
        rows3    == ValueRows(rows2, selected_field, a.field_values)
        fail(e, cols, said) ==
            [error |-> e, input |-> [df EXCEPT !.cols = cols], out |-> NoTable,
             said |-> said]
    IN  IF noBounds THEN fail("ValueError", df.cols, <<>>)
        ELSE IF IsNone(a.filter_field)
        THEN [error |-> "none", input |-> df,
              out |-> [cols |-> df.cols, rows |-> rows1],
              said |-> Append(said1, Told("No field filter applied", rows1))]
        ELSE IF unknown THEN fail("ValueError", df.cols, said1)
        ELSE IF byYear /\ IsNone(a.selected_year) THEN fail("ValueError", df.cols, said1)
        ELSE IF IsNone(a.field_values)
        THEN [error |-> "none", input |-> [df EXCEPT !.cols = cols2],
              out |-> [cols |-> cols2, rows |-> rows2],
              said |-> Append(said2, Told("No filter values provided", rows2))]
        ELSE IF ~HasCol(df, BsdbCol(selected_field)) THEN fail("KeyError", cols2, said2)
        ELSE IF ~IsTextColumn(selected_field) THEN fail("AttributeError", cols2, said2)
        ELSE IF \E i \in 1..Len(values) : "str" \notin DOMAIN values[i]
        THEN fail("AttributeError", cols2, said2)
        ELSE [error |-> "none", input |-> [df EXCEPT !.cols = cols2],
              out |-> [cols |-> cols2, rows |-> rows3],
              said |-> Append(said2, Told("rows after filtering by field", rows3))]

\* spatial_filter; polygon_input is [points |-> the places the polygon
\* covers], or [unreadable |-> TRUE] for a file that cannot be read; a record
\* intersects the polygon when its geometry is one of the places
SpatialFilter(df, a) ==
    LET dated    == a.apply_date_filter
        noBounds == dated /\ (IsNone(a.start_date) \/ IsNone(a.end_date))
        rows1    == IF dated THEN DateRows(df.rows, a.start_date, a.end_date)
                    ELSE df.rows
        said1    == IF dated THEN <<Told("rows after date filtering", rows1)>>
                    ELSE <<Told("No date filter applied", <<>>)>>
        inside   == SelectSeq(rows1, LAMBDA r : r.geometry \in a.polygon_input.points)
        fail(e, said) == [error |-> e, input |-> df, out |-> NoTable, said |-> said]
    IN  IF ~HasCol(df, "clean_date") \/ ~HasCol(df, a.geometry_col)
        THEN fail("ValueError", <<>>)
        ELSE IF noBounds THEN fail("ValueError", <<>>)
        ELSE IF "unreadable" \in DOMAIN a.polygon_input THEN fail("IOError", said1)
        ELSE [error |-> "none", input |-> df,
              out |-> [cols |-> df.cols, rows |-> inside],
              said |-> Append(said1, Told("rows after spatial filtering", inside))]

\* filter_bsdb for the methods that take their choices as arguments
FilterBsdb(df, a) ==
    CASE Upper(a.filter_method) = "AUTOMATED" -> AutomatedFilter(df, a)
      [] Upper(a.filter_method) = "SPATIAL"   -> SpatialFilter(df, a)
      [] OTHER -> [error |-> "ValueError", input |-> df, out |-> NoTable, said |-> <<>>]

-----------------------------------------------------------------------------
(* filter_bsdb called by the user on a loaded BSDB *)

bsdb_cols == Append(input_cols, "geometry")

\* a structure of a site with its place (the sites stand at places 1, 2, 1)
BsdbRow(site, damage) ==
    [f \in DOMAIN StructureRow(site, damage, Big) \cup {"geometry"} |->
        IF f = "geometry" THEN <<1, 2, 1>>[site]
        ELSE StructureRow(site, damage, Big)[f]]

BsdbRows ==
    {BsdbRow(1, "Destroyed (>50%)"), BsdbRow(1, "No Damage"),
     BsdbRow(2, "Destroyed (>50%)"), BsdbRow(3, "Major (26-50%)")}

Date(d) == [date |-> d]

\* apply_date_filter, start_date, end_date
DateChoices ==
    {<<FALSE, None, None>>, <<FALSE, Date(202010), Date(202109)>>,
     <<TRUE, None, Date(202010)>>, <<TRUE, Date(202009), None>>,
     <<TRUE, Date(202009), Date(202010)>>, <<TRUE, Date(202010), Date(202109)>>,
     <<TRUE, Date(202011), Date(202012)>>}

FieldChoices ==
    {None, [str |-> "Wildfire Name"], [str |-> "wildfire name"], [str |-> "County"],
     [str |-> "CoAbDis Code"], [str |-> "State"]}

ValueChoices ==
    {None, List(<<>>), List(<<[str |-> "Camp"]>>),
     List(<<[str |-> "camp"], [str |-> "Woolsey"]>>), List(<<[str |-> "BUTTE"]>>),
     List(<<[int |-> 1]>>)}

YearChoices == {None, [year |-> 2020], [year |-> 2021]}

AutomatedArgs ==
    {[filter_method |-> "Automated", apply_date_filter |-> d[1], start_date |-> d[2],
      end_date |-> d[3], filter_field |-> f, field_values |-> v, selected_year |-> y,
      polygon_input |-> None, geometry_col |-> "geometry"] :
        d \in DateChoices, f \in FieldChoices, v \in ValueChoices, y \in YearChoices}

SpatialArgs ==
    {[filter_method |-> m, apply_date_filter |-> d[1], start_date |-> d[2],
      end_date |-> d[3], filter_field |-> None, field_values |-> None,
      selected_year |-> None, polygon_input |-> g, geometry_col |-> c] :
        m \in {"Spatial", "spatial", "Manual"}, d \in DateChoices,
        g \in {[points |-> {}], [points |-> {1}], [points |-> {1, 2}],
               [unreadable |-> TRUE]},
        c \in {"geometry", "geom"}}

InitFilter ==
    /\ pc = "loaded"
    /\ error = "none"
    /\ log = <<>>
    /\ args = NoArgs
    /\ structure_df \in TablesOver(BsdbRows, bsdb_cols)
    /\ pounds = <<>>
    /\ emissions_gdf = NoTable
    /\ agg_out = NoTable
    /\ vehicle_table = NoTable
    /\ filt_bsdb = NoTable

FilterCall(a) ==
    /\ pc = "loaded"
    /\ \E r \in {FilterBsdb(structure_df, a)} :
           /\ pc' = IF r.error = "none" THEN "filtered" ELSE "error"
           /\ error' = r.error
           /\ log' = r.said
           /\ structure_df' = r.input
           /\ filt_bsdb' = r.out
    /\ args' = a
    /\ UNCHANGED <<pounds, emissions_gdf, agg_out, vehicle_table>>

NextFilter == \E a \in AutomatedArgs \cup SpatialArgs : FilterCall(a)

SpecFilter == InitFilter /\ [][NextFilter]_vars

-----------------------------------------------------------------------------
(* sweep_estimator from its arguments to its result, lines 154-233 *)

\* a print of the driver itself
Stage(msg) == [msg |-> msg, val |-> 0]

\* lines 182-192: the arguments handed to filter_bsdb; selected_year is not
\* among them, so the filter sees its default None
EstimatorFilterArgs(a) ==
    [filter_method |-> a.filter_method, apply_date_filter |-> a.apply_date_filter,
     start_date |-> a.start_date, end_date |-> a.end_date,
     filter_field |-> a.filter_field, field_values |-> a.field_values,
     selected_year |-> None, polygon_input |-> a.polygon_input,
     geometry_col |-> a.geometry_col]

\* lines 223-233: after the three stages
EstimatorWrite(r, a) ==
    IF r.error = "none" /\ Upper(a.write) = "YES"
    THEN [r EXCEPT !.said = Append(r.said, Stage("write_outputs"))]
    ELSE r

\* lines 213-221: the result of the three stages
EstimatorVehicles(est, agg, veh) ==
    [error |-> veh.error,
     outcome |-> IF veh.error = "none" THEN "tables" ELSE "raised",
     filt |-> est.input, pounds |-> est.pounds, gdf |-> agg.gdf,
     agg |-> agg.out, veh |-> veh.out,
     said |-> <<Stage("Estimating emissions")>> \o est.said
              \o <<Stage("Aggregating report")>> \o agg.said
              \o <<Stage("Calculating vehicle emissions")>> \o veh.said]

\* lines 210-221 on the result agg of aggregated_report
EstimatorAggregate(est, agg) ==
    IF agg.error # "none"
    THEN [error |-> agg.error, outcome |-> "raised", filt |-> est.input,
          pounds |-> est.pounds, gdf |-> agg.gdf, agg |-> NoTable,
          veh |-> NoTable,
          said |-> <<Stage("Estimating emissions")>> \o est.said
                   \o <<Stage("Aggregating report")>> \o agg.said]
    ELSE EstimatorVehicles(est, agg, VehicleCalculator(agg.gdf, SweepVehicleArgs))

\* lines 198-221 on the result est of estimate_emissions
EstimatorReport(est, a) ==
    IF est.error # "none"
    THEN [error |-> est.error, outcome |-> "raised", filt |-> est.input,
          pounds |-> <<>>, gdf |-> NoTable, agg |-> NoTable, veh |-> NoTable,
          said |-> <<Stage("Estimating emissions")>> \o est.said]
    ELSE EstimatorAggregate(est,
             AggregatedReport(WithAreaColumns(est.out),
                              SweepFields(a.aggregate_fields,
                                          List(<<"YEAR", "INCIDENT">>))))

\* the stages run whatever the length of the table
EstimatorAfterFilterUnchecked(filt, a) ==
    EstimatorWrite(EstimatorReport(EstimateEmissions(filt, SweepEmissionArgs), a), a)

\* lines 193-233 on what filter_bsdb returned: a table, or None
EstimatorAfterFilter(filt, a) ==
    LET empty(e, outcome, said) ==
            [error |-> e, outcome |-> outcome, filt |-> NoTable, pounds |-> <<>>,
             gdf |-> NoTable, agg |-> NoTable, veh |-> NoTable, said |-> said]
    IN  IF IsNone(filt) THEN empty("TypeError", "raised", <<>>)
        ELSE IF Len(filt.rows) = 0
        THEN [empty("none", "none", <<Stage("No structures found")>>)
                  EXCEPT !.filt = filt]
        ELSE EstimatorWrite(EstimatorReport(EstimateEmissions(filt, SweepEmissionArgs), a), a)

\* line 181: what the driver prints before the filter
EstimatorOpening == <<Stage("Loading BSDB"), Stage("Applying filter criteria")>>

\* the run that ended before the stages
EstimatorStops(e, input, said) ==
    [error |-> e, outcome |-> "raised", input |-> input, filt |-> NoTable,
     pounds |-> <<>>, gdf |-> NoTable, agg |-> NoTable, veh |-> NoTable,
     said |-> said]

\* the result of the run from the result f of the filter and r of the rest
EstimatorResult(f, r) ==
    [error |-> r.error, outcome |-> r.outcome, input |-> f.input,
     filt |-> r.filt, pounds |-> r.pounds, gdf |-> r.gdf, agg |-> r.agg,
     veh |-> r.veh, said |-> EstimatorOpening \o f.said \o r.said]

\* lines 193-233 on the result f of filter_bsdb
EstimatorFiltered(f, a) ==
    IF f.error # "none"
    THEN EstimatorStops(f.error, f.input, EstimatorOpening \o f.said)
    ELSE EstimatorResult(f, EstimatorAfterFilter(f.out, a))

\* lines 166-192: validation of the aggregation fields, then the load and
\* the filter; an automated or spatial filter runs to its end here
EstimatorRun(df, a) ==
    IF SweepRejects(SweepFields(a.aggregate_fields, List(<<"YEAR", "INCIDENT">>)))
    THEN EstimatorStops("ValueError", df, <<>>)
    ELSE EstimatorFiltered(FilterBsdb(df, EstimatorFilterArgs(a)), a)

-----------------------------------------------------------------------------
(* Specification of sweep_estimator with an automated or a spatial filter *)

EstimatorFields ==
    {None, [str |-> "Wildfire Name"], [str |-> "County"], [str |-> "State"]}

EstimatorValues == {None, List(<<>>), List(<<[str |-> "BUTTE"]>>)}

EstimatorAggregates == {None, List(<<"COUNTY">>), List(<<"STATE">>)}

EstimatorArgs ==
    {[filter_method |-> m, apply_date_filter |-> d[1], start_date |-> d[2],
      end_date |-> d[3], filter_field |-> f, field_values |-> v,
      polygon_input |-> p, geometry_col |-> "geometry", aggregate_fields |-> g,
      write |-> w] :
        m \in {"Automated"}, d \in DateChoices, f \in EstimatorFields,
        v \in EstimatorValues, p \in {None}, g \in EstimatorAggregates,
        w \in {"YES", "no"}}
    \cup
    {[filter_method |-> m, apply_date_filter |-> d[1], start_date |-> d[2],
      end_date |-> d[3], filter_field |-> f, field_values |-> v,
      polygon_input |-> p, geometry_col |-> "geometry", aggregate_fields |-> g,
      write |-> w] :
        m \in {"spatial"}, d \in DateChoices, f \in {[str |-> "Wildfire Name"]},
        v \in {None}, p \in {[points |-> {}], [points |-> {1}]},
        g \in EstimatorAggregates, w \in {"YES", "no"}}

InitEstimator ==
    /\ pc = "idle"
    /\ error = "none"
    /\ log = <<>>
    /\ args = NoArgs
    /\ structure_df \in TablesOver(BsdbRows, bsdb_cols)
    /\ pounds = <<>>
    /\ emissions_gdf = NoTable
    /\ agg_out = NoTable
    /\ vehicle_table = NoTable
    /\ filt_bsdb = NoTable

\* sweep_estimator(...) with filter_method "Automated" or "Spatial"
EstimatorCall(a) ==
    /\ pc = "idle"
    /\ \E r \in {EstimatorRun(structure_df, a)} :
           /\ pc' = CASE r.outcome = "raised" -> "error"
                      [] r.outcome = "none" -> "no_records"
                      [] OTHER -> "returned"
           /\ error' = r.error
           /\ log' = r.said
           /\ structure_df' = r.input
           /\ filt_bsdb' = r.filt
           /\ pounds' = r.pounds
           /\ emissions_gdf' = r.gdf
           /\ agg_out' = r.agg
           /\ vehicle_table' = r.veh
    /\ args' = a

NextEstimator == \E a \in EstimatorArgs : EstimatorCall(a)

SpecEstimator == InitEstimator /\ [][NextEstimator]_vars

-----------------------------------------------------------------------------
(* interactive_filter, src/scripts_depr/filters.py lines 130-302: what the  *)
(* operator types, and how each prompt reads it                             *)

\* .strip().lower() on the answers of the model
StripLower(text) ==
    CASE text \in {"yes", "Yes", " YES "} -> "yes"
      [] text \in {"y", "Y"}              -> "y"
      [] text \in {"no", "No"}            -> "no"
      [] text \in {"n", "N"}              -> "n"
      [] text \in {"exit", "Exit ", "EXIT"} -> "exit"
      [] OTHER                            -> text

Bad == [bad |-> TRUE]

IsBad(x) == "bad" \in DOMAIN x

\* int(text): the number, or ValueError
ParseInt(text) ==
    CASE text = "0" -> [int |-> 0]
      [] text = "1" -> [int |-> 1]
      [] text = " 2 " -> [int |-> 2]
      [] text = "2" -> [int |-> 2]
      [] text = "3" -> [int |-> 3]
      [] text = "4" -> [int |-> 4]
      [] text = "5" -> [int |-> 5]
      [] text = "6" -> [int |-> 6]
      [] text = "7" -> [int |-> 7]
      [] text = "1999" -> [int |-> 1999]
      [] text = "2020" -> [int |-> 2020]
      [] text = "2021" -> [int |-> 2021]
      [] OTHER -> Bad

\* lines 263 and 284: [int(c.strip()) for c in text.split(',')], or ValueError
ParseChoices(text) ==
    CASE text = "1, 2" -> [ints |-> <<1, 2>>]
      [] text = "2,1"  -> [ints |-> <<2, 1>>]
      [] text = "1,x"  -> Bad
      [] OTHER -> IF IsBad(ParseInt(text)) THEN Bad
                  ELSE [ints |-> <<ParseInt(text).int>>]

\* pd.to_datetime(text) for the dates an operator types: the month of the
\* date, or an exception
ParseDate(text) ==
    CASE text = "2020-09-01" -> Date(202009)
      [] text = "2020-10-01" -> Date(202010)
      [] text = "2021-09-01" -> Date(202109)
      [] text = "2022-01-01" -> Date(202201)
      [] OTHER -> Bad

\* line 210: the nicknames in the order they are listed
display_fields ==
    <<"Wildfire Name", "Incident Number", "County", "Air Basin", "Air District",
      "CoAbDis Code">>

\* line 231: the years of the working table, ascending
UniqueYears(rows) ==
    LET years == {rows[i].clean_date \div 100 : i \in 1..Len(rows)}
    IN  SelectSeq(<<2020, 2021, 2022>>, LAMBDA y : y \in years)

\* lines 248-251 and 275: the values listed for the field; the wildfire
\* names come grouped, in the order of the names, the others in the order
\* they occur, without the missing ones
Options(rows, column) ==
    IF column = "incidentname"
    THEN SelectSeq([i \in 1..Len(IncidentNames) |-> [str |-> IncidentNames[i]]],
                   LAMBDA c : \E i \in 1..Len(rows) : BsdbCell(rows[i], column) = c)
    ELSE SelectSeq(Unique([i \in 1..Len(rows) |-> BsdbCell(rows[i], column)]),
                   LAMBDA c : "nan" \notin DOMAIN c)

\* lines 264-266 and 285-287: the rows whose value is one of those chosen
ChosenRows(rows, column, choices) ==
    LET options == Options(rows, column)
    IN  SelectSeq(rows, LAMBDA r :
            \E k \in 1..Len(choices) : BsdbCell(r, column) = options[choices[k]])

-----------------------------------------------------------------------------
(* Specification of an interactive session: filter_bsdb(df, "Interactive"),  *)
(* called by the user or by sweep_estimator.  pc is the prompt that waits    *)
(* for an answer, filt_bsdb the working table df, args the locals.           *)

YesNoAnswers == {"yes", "Y", "no", "Exit ", "maybe"}

DateAnswers == {"2020-09-01", "2020-10-01", "2022-01-01", "exit", "soon"}

FieldAnswers == {"1", "3", "6", "7", "x", "exit"}

YearAnswers == {"2020", "2021", "1999", "x", "exit"}

ValueAnswers == {"1", " 2 ", "1, 2", "3", "1,x", "exit"}

\* the calls that open a session
InteractiveCalls ==
    {[entry |-> "filter_bsdb", aggregate_fields |-> None, write |-> "no"]}
    \cup {[entry |-> "sweep_estimator", aggregate_fields |-> g[1], write |-> g[2]] :
            g \in {<<None, "YES">>, <<List(<<"COUNTY">>), "no">>,
                   <<List(<<"STATE">>), "YES">>}}

\* the locals after the answer text was read at the prompt pc (prompt and
\* response keep the last answer and where it was given, from and asked the
\* prompt and the answer that led to exit_program)
Heard(text) == [args EXCEPT !.prompt = pc, !.response = text]

\* filter_bsdb(df, "Interactive") directly, or sweep_estimator lines 166-192
\* with the default filter_method: the session opens at the first prompt
InteractiveCall(c) ==
    /\ pc = "idle"
    /\ IF /\ c.entry = "sweep_estimator"
          /\ SweepRejects(SweepFields(c.aggregate_fields, List(<<"YEAR", "INCIDENT">>)))
       THEN /\ pc' = "error"
            /\ error' = "ValueError"
            /\ log' = <<>>
            /\ filt_bsdb' = NoTable
       ELSE /\ pc' = "AskDateFilter"
            /\ error' = "none"
            /\ log' = IF c.entry = "sweep_estimator" THEN EstimatorOpening ELSE <<>>
            /\ filt_bsdb' = structure_df
    /\ args' = [entry |-> c.entry, call |-> c, prompt |-> "", response |-> "",
                from |-> "", asked |-> "", start_date |-> "", date_filtered |-> FALSE,
                selected_field |-> "", same |-> TRUE, returned |-> ""]
    /\ UNCHANGED <<structure_df, pounds, emissions_gdf, agg_out, vehicle_table>>

\* interactive_filter returns result (None, or the working table) having
\* printed said; under sweep_estimator lines 193-233 follow
SessionReturns(result, said) ==
    IF args.entry = "filter_bsdb"
    THEN /\ pc' = IF IsNone(result) THEN "exited" ELSE "filtered"
         /\ error' = "none"
         /\ log' = said
         /\ filt_bsdb' = IF IsNone(result) THEN NoTable ELSE result
         /\ UNCHANGED <<pounds, emissions_gdf, agg_out, vehicle_table>>
    ELSE \E r \in {EstimatorAfterFilter(result, args.call)} :
         /\ pc' = CASE r.outcome = "raised" -> "error"
                    [] r.outcome = "none" -> "no_records"
                    [] OTHER -> "returned"
         /\ error' = r.error
         /\ log' = said \o r.said
         /\ filt_bsdb' = r.filt
         /\ pounds' = r.pounds
         /\ emissions_gdf' = r.gdf
         /\ agg_out' = r.agg
         /\ vehicle_table' = r.veh

\* the prompt stays or moves to next; nothing else changes but the locals
Prompts(next, said, locals) ==
    /\ pc' = next
    /\ log' = said
    /\ args' = locals
    /\ UNCHANGED <<error, structure_df, filt_bsdb, pounds, emissions_gdf, agg_out,
                   vehicle_table>>

\* lines 164-191: "Would you like to apply a date filter? (yes/no): "
AskDateFilter(text) ==
    /\ pc = "AskDateFilter"
    /\ LET date_filter_choice == StripLower(text)
       IN  CASE date_filter_choice = "exit" ->
                    Prompts("ConfirmExit", <<>>, [Heard(text) EXCEPT !.from = pc, !.asked = text])
             [] date_filter_choice \in {"yes", "y"} ->
                    Prompts("AskStartDate", <<Stage("Available date range")>>,
                            Heard(text))
             [] date_filter_choice \in {"no", "n"} ->
                    Prompts("AskOtherFilter", <<Stage("Skipping date filter")>>,
                            Heard(text))
             [] OTHER -> Prompts(pc, <<Stage("Invalid input")>>, Heard(text))

\* lines 152-158, exit_program: "Would you like to exit? (yes/no): "
ConfirmExit(text) ==
    /\ pc = "ConfirmExit"
    /\ IF StripLower(text) \in {"yes", "y"}
       THEN /\ SessionReturns(None, <<Stage("Exiting program")>>)
            /\ args' = [Heard(text) EXCEPT !.returned = "None"]
            /\ UNCHANGED structure_df
       ELSE Prompts(args.from, <<>>, Heard(text))

\* line 174: "Enter start date ..."; the text is kept as typed
AskStartDate(text) ==
    /\ pc = "AskStartDate"
    /\ Prompts("AskEndDate", <<>>, [Heard(text) EXCEPT !.start_date = text])

\* lines 175-186: "Enter end date ...", then both texts are parsed
AskEndDate(text) ==
    /\ pc = "AskEndDate"
    /\ LET start_date == ParseDate(args.start_date)
           end_date   == ParseDate(text)
       IN  IF IsBad(start_date) \/ IsBad(end_date)
           THEN /\ SessionReturns(None, <<Stage("Invalid date input")>>)
                /\ args' = [Heard(text) EXCEPT !.returned = "None"]
                /\ UNCHANGED structure_df
           ELSE \E rows \in {DateRows(filt_bsdb.rows, start_date, end_date)} :
                /\ pc' = "AskOtherFilter"
                /\ log' = <<Told("rows after date filtering", rows)>>
                /\ filt_bsdb' = [filt_bsdb EXCEPT !.rows = rows]
                /\ args' = [Heard(text) EXCEPT !.date_filtered = TRUE,
                                               !.same = FALSE]
                /\ UNCHANGED <<error, structure_df, pounds, emissions_gdf, agg_out,
                               vehicle_table>>

\* lines 194-199 and 294-300: "Would you like to apply other filters?"
AskOtherFilter(text) ==
    /\ pc = "AskOtherFilter"
    /\ LET apply_other_filters == StripLower(text)
       IN  CASE apply_other_filters = "exit" ->
                    Prompts("ConfirmExit", <<>>, [Heard(text) EXCEPT !.from = pc, !.asked = text])
             [] apply_other_filters \in {"yes", "y"} ->
                    Prompts("ChooseField", <<Stage("Available fields to filter by")>>,
                            Heard(text))
             [] apply_other_filters \in {"no", "n"} ->
                    /\ SessionReturns(filt_bsdb, <<Stage("Skipping other filters")>>)
                    /\ args' = [Heard(text) EXCEPT !.returned = "table"]
                    /\ UNCHANGED structure_df
             [] OTHER ->
                    Prompts("ConfirmExit", <<Stage("Invalid input")>>,
                            [Heard(text) EXCEPT !.from = pc, !.asked = text])

\* the year is asked for Wildfire Name whatever came before
NeedsYearAlways(selected_field, date_filtered) == selected_field = "incidentname"

\* lines 228-229: the year is asked for Wildfire Name in a session without a
\* date filter
NeedsYear(selected_field, date_filtered) ==
    selected_field = "incidentname" /\ ~date_filtered

\* lines 215-234: "Enter the number corresponding to the field ..."; with
\* Wildfire Name and no date filter, line 230 writes the year column
ChooseField(text) ==
    /\ pc = "ChooseField"
    /\ LET field_choice == ParseInt(text)
       IN  IF IsBad(field_choice)
           THEN Prompts(pc, <<Stage("Please enter a valid number")>>, Heard(text))
           ELSE IF ~(1 <= field_choice.int /\ field_choice.int <= Len(display_fields))
           THEN Prompts(pc, <<Stage("Invalid choice")>>, Heard(text))
           ELSE LET selected_field ==
                        field_nicknames[display_fields[field_choice.int]]
                    locals == [Heard(text) EXCEPT !.selected_field = selected_field]
                IN  IF NeedsYear(selected_field, args.date_filtered)
                    THEN /\ pc' = "ChooseYear"
                         /\ log' = <<Stage("Available years")>>
                         /\ args' = locals
                         /\ filt_bsdb' = [filt_bsdb EXCEPT
                                            !.cols = AddCol(filt_bsdb.cols, "year")]
                         /\ structure_df' =
                                IF args.same
                                THEN [structure_df EXCEPT
                                        !.cols = AddCol(structure_df.cols, "year")]
                                ELSE structure_df
                         /\ UNCHANGED <<error, pounds, emissions_gdf, agg_out,
                                        vehicle_table>>
                    ELSE Prompts("ChooseValues", <<Stage("Available values")>>, locals)

\* lines 235-245: "Enter the year you want to filter by: "
ChooseYear(text) ==
    /\ pc = "ChooseYear"
    /\ LET chosen_year == ParseInt(text)
       IN  IF IsBad(chosen_year)
           THEN Prompts(pc, <<Stage("Please enter a valid year")>>, Heard(text))
           ELSE IF \A i \in 1..Len(UniqueYears(filt_bsdb.rows)) :
                       UniqueYears(filt_bsdb.rows)[i] # chosen_year.int
           THEN Prompts(pc, <<Stage("Invalid year")>>, Heard(text))
           ELSE \E rows \in {YearRows(filt_bsdb.rows, [year |-> chosen_year.int])} :
                /\ pc' = "ChooseValues"
                /\ log' = <<Told("rows after year filtering", rows)>>
                /\ filt_bsdb' = [filt_bsdb EXCEPT !.rows = rows]
                /\ args' = [Heard(text) EXCEPT !.same = FALSE]
                /\ UNCHANGED <<error, structure_df, pounds, emissions_gdf, agg_out,
                               vehicle_table>>

\* lines 260-272 and 281-293: "Enter one or more numbers separated by
\* commas ..."; after the filter the loop of line 194 asks again
ChooseValues(text) ==
    /\ pc = "ChooseValues"
    /\ LET choices == ParseChoices(text)
           options == Options(filt_bsdb.rows, args.selected_field)
       IN  IF IsBad(choices)
           THEN Prompts(pc, <<Stage("Please enter valid numbers")>>, Heard(text))
           ELSE IF \E k \in 1..Len(choices.ints) :
                       ~(1 <= choices.ints[k] /\ choices.ints[k] <= Len(options))
           THEN Prompts(pc, <<Stage("Invalid choices")>>, Heard(text))
           ELSE \E rows \in {ChosenRows(filt_bsdb.rows, args.selected_field,
                                        choices.ints)} :
                /\ pc' = "AskOtherFilter"
                /\ log' = <<Told("rows after filtering", rows)>>
                /\ filt_bsdb' = [filt_bsdb EXCEPT !.rows = rows]
                /\ args' = [Heard(text) EXCEPT !.same = FALSE]
                /\ UNCHANGED <<error, structure_df, pounds, emissions_gdf, agg_out,
                               vehicle_table>>

NextInteractive ==
    \/ \E c \in InteractiveCalls : InteractiveCall(c)
    \/ \E text \in YesNoAnswers : AskDateFilter(text)
    \/ \E text \in YesNoAnswers : ConfirmExit(text)
    \/ \E text \in DateAnswers : AskStartDate(text)
    \/ \E text \in DateAnswers : AskEndDate(text)
    \/ \E text \in YesNoAnswers : AskOtherFilter(text)
    \/ \E text \in FieldAnswers : ChooseField(text)
    \/ \E text \in YearAnswers : ChooseYear(text)
    \/ \E text \in ValueAnswers : ChooseValues(text)

SpecInteractive == InitEstimator /\ [][NextInteractive]_vars

-----------------------------------------------------------------------------
(* Claims about sweep_estimator's use of the filter *)

\* the stages a run entered, by the driver's own messages
StagesRun ==
    {log[i].msg : i \in 1..Len(log)} \cap
        {"Estimating emissions", "Aggregating report",
         "Calculating vehicle emissions", "write_outputs"}

\* the run returned (None, None, None)
NoResult ==
    /\ error = "none"
    /\ emissions_gdf = NoTable /\ agg_out = NoTable /\ vehicle_table = NoTable

\* C14: when the filter of a sweep_estimator run yields zero rows, the run
\* ends with the no-matching-records outcome (None, None, None), raises
\* nothing, and enters none of the emissions, aggregation, vehicle and
\* write stages.
C14_ZeroRowsShortCircuit ==
    (pc # "idle" /\ "aggregate_fields" \in DOMAIN args) =>
        LET f == FilterBsdb(structure_df, EstimatorFilterArgs(args))
        IN  (/\ ~SweepRejects(SweepFields(args.aggregate_fields,
                                          List(<<"YEAR", "INCIDENT">>)))
             /\ f.error = "none"
             /\ Len(f.out.rows) = 0)
            => (pc = "no_records" /\ NoResult /\ StagesRun = {})

\* records were loaded and the filter left none of them
C14_Witness ==
    /\ pc = "no_records"
    /\ Len(structure_df.rows) > 0
    /\ Len(filt_bsdb.rows) = 0
    /\ log[Len(log)].msg = "No structures found"

\* a direct filter_bsdb call with the run's filter arguments and some year
\* is accepted
AcceptedWithSomeYear ==
    \E y \in YearChoices \ {None} :
        FilterBsdb(structure_df,
                   [EstimatorFilterArgs(args) EXCEPT !.selected_year = y]).error = "none"

\* the run asked for the automated filter by Wildfire Name without dates
NameWithoutDates ==
    /\ pc # "idle" /\ "aggregate_fields" \in DOMAIN args
    /\ Upper(args.filter_method) = "AUTOMATED"
    /\ ~IsNone(args.filter_field)
    /\ Upper(args.filter_field.str) = "WILDFIRE NAME"
    /\ ~args.apply_date_filter

\* C29: a filter configuration that filter_bsdb accepts can be driven through
\* sweep_estimator: an automated run by Wildfire Name without a date filter,
\* accepted by filter_bsdb with a year, passes the filter stage of the run
\* instead of ending in the missing-year error.
C29_EveryConfigurationDrivable ==
    (NameWithoutDates /\ AcceptedWithSomeYear
       /\ ~SweepRejects(SweepFields(args.aggregate_fields,
                                    List(<<"YEAR", "INCIDENT">>))))
        => ~(pc = "error" /\ error = "ValueError")

-----------------------------------------------------------------------------
(* Claims about the interactive session *)

\* a session is in the state
InSession == "prompt" \in DOMAIN args

\* the operator typed exit at a yes/no prompt and confirmed it
Cancelled ==
    /\ InSession
    /\ StripLower(args.asked) = "exit"
    /\ args.prompt = "ConfirmExit"
    /\ StripLower(args.response) \in {"yes", "y"}

\* C15: when the operator cancels the interactive filter (exit, confirmed)
\* under sweep_estimator, the run ends with no result, with no exception
\* raised and without the emissions, aggregation or vehicle stage.
C15_CancelEndsWithoutResult ==
    (Cancelled /\ args.entry = "sweep_estimator") =>
        (pc # "error" /\ NoResult /\ StagesRun = {})

\* the last answer was exit
ExitTyped == InSession /\ StripLower(args.response) = "exit"

\* interactive_filter returned None
ReturnedNone == InSession /\ args.returned = "None"

PromptStates ==
    {"AskDateFilter", "AskStartDate", "AskEndDate", "AskOtherFilter",
     "ChooseField", "ChooseYear", "ChooseValues"}

\* C16: exit typed at any prompt of the interactive filter ends the loop: the
\* session is over with no table returned, or waits only for the confirmation
\* of the exit; no other prompt follows.
C16_ExitFromEveryPrompt ==
    (ExitTyped /\ args.prompt \in PromptStates) =>
        (ReturnedNone \/ pc = "ConfirmExit")

\* the answer text is none of those the prompt accepts, on the working
\* table df with the locals l; exit is not an invalid answer
InvalidAt(prompt, text, df, l) ==
    /\ StripLower(text) # "exit"
    /\ CASE prompt \in {"AskDateFilter", "AskOtherFilter"} ->
                StripLower(text) \notin {"yes", "y", "no", "n"}
         [] prompt \in {"AskStartDate", "AskEndDate"} -> IsBad(ParseDate(text))
         [] prompt = "ChooseField" ->
                \/ IsBad(ParseInt(text))
                \/ ParseInt(text).int \notin 1..Len(display_fields)
         [] prompt = "ChooseYear" ->
                \/ IsBad(ParseInt(text))
                \/ \A i \in 1..Len(UniqueYears(df.rows)) :
                       UniqueYears(df.rows)[i] # ParseInt(text).int
         [] prompt = "ChooseValues" ->
                \/ IsBad(ParseChoices(text))
                \/ \E k \in 1..Len(ParseChoices(text).ints) :
                       ParseChoices(text).ints[k] \notin
                           1..Len(Options(df.rows, l.selected_field))
         [] OTHER -> FALSE

\* C17: an invalid answer at any prompt of the interactive filter leaves the
\* session at the same prompt with the same working table; the session does
\* not end and no other prompt follows.
C17_InvalidReprompts ==
    [][(pc \in PromptStates /\ InvalidAt(pc, args'.response, filt_bsdb, args))
           => (pc' = pc /\ filt_bsdb' = filt_bsdb)]_vars

\* the rows of sub are rows of seq, in the order of seq
RECURSIVE IsSubSeq(_, _)
IsSubSeq(sub, seq) ==
    IF sub = <<>> THEN TRUE
    ELSE IF seq = <<>> THEN FALSE
    ELSE IF Head(sub) = Head(seq) THEN IsSubSeq(Tail(sub), Tail(seq))
    ELSE IsSubSeq(sub, Tail(seq))

\* the answer read in this step names the field Wildfire Name
WildfireChosen(text) ==
    /\ ~IsBad(ParseInt(text))
    /\ ParseInt(text).int \in 1..Len(display_fields)
    /\ display_fields[ParseInt(text).int] = "Wildfire Name"

\* C28: in an interactive session the year prompt follows exactly the choice
\* of Wildfire Name in a session without a date filter; each step leaves a
\* working table whose records are records of the table before it; after an
\* applied field filter the session is back at AskOtherFilter; the session
\* returns its table only on the answer no at AskOtherFilter.
C28_SessionMachine ==
    [][(pc \in PromptStates) =>
          /\ (pc' = "ChooseYear" /\ pc # "ChooseYear") <=>
                 (pc = "ChooseField" /\ WildfireChosen(args'.response)
                      /\ ~args.date_filtered)
          /\ pc' \in PromptStates \cup {"ConfirmExit", "filtered"} =>
                 IsSubSeq(filt_bsdb'.rows, filt_bsdb.rows)
          /\ (pc = "ChooseValues" /\ pc' # pc) => pc' = "AskOtherFilter"
          /\ args'.returned = "table" =>
                 (pc = "AskOtherFilter" /\ StripLower(args'.response) \in {"no", "n"})
      ]_vars

\* a session with a date filter chose Wildfire Name, was not asked a year,
\* filtered by name and returned a smaller table
C28_Witness ==
    /\ InSession /\ pc = "filtered"
    /\ args.date_filtered /\ args.selected_field = "incidentname"
    /\ ~HasCol(filt_bsdb, "year")
    /\ Len(filt_bsdb.rows) > 0
    /\ Len(filt_bsdb.rows) < Len(structure_df.rows)

-----------------------------------------------------------------------------
(* Claims about the automated and the spatial filter *)

\* a call of filter_bsdb is in the state, with the method named
FilterEntry(method) ==
    "filter_method" \in DOMAIN args /\ Upper(args.filter_method) = method

\* the call named a nickname of the table, in any letter case
ValidField ==
    /\ ~IsNone(args.filter_field)
    /\ args.filter_field.str \in
         DOMAIN field_nicknames \cup {"wildfire name", "county"}

\* C13: a valid field with an empty list of values is not applied: the call
\* returns what it returns with no values supplied, and raises nothing.
C13_EmptyValuesUnfiltered ==
    (FilterEntry("AUTOMATED") /\ ValidField /\ args.field_values = List(<<>>)) =>
        LET r == AutomatedFilter(structure_df, [args EXCEPT !.field_values = None])
        IN  r.error = "none" => (pc = "filtered" /\ filt_bsdb = r.out)

\* the predicates a call applied to the records, by the counts it printed
PredicatesApplied ==
    {log[i].msg : i \in 1..Len(log)} \cap
        {"rows after date filtering", "rows after filtering by year",
         "rows after filtering by field"}

\* C18: a configuration error of the automated filter (unknown nickname,
\* missing bound, missing year) is raised before any date, year or value
\* predicate has been applied to the records.
C18_ErrorsBeforePredicates ==
    (FilterEntry("AUTOMATED") /\ pc = "error" /\ error = "ValueError") =>
        PredicatesApplied = {}

\* the record passes the date stage of the call in the state
PassesDates(r) ==
    \/ ~args.apply_date_filter
    \/ (args.start_date.date <= r.clean_date /\ r.clean_date <= args.end_date.date)

\* the date filter was requested without one of its bounds
MissingBound ==
    args.apply_date_filter /\ (IsNone(args.start_date) \/ IsNone(args.end_date))

\* the count the call printed after its date stage
DateCountSaid ==
    {log[i].val : i \in {j \in 1..Len(log) : log[j].msg = "rows after date filtering"}}

\* C19: in the automated and the spatial filter a requested date range keeps
\* the records with start <= clean_date <= end, both bounds included; a
\* requested date filter with a bound missing is an error and returns no
\* table; without a requested date filter every record passes the date stage.
C19_InclusiveDateRange ==
    (FilterEntry("AUTOMATED") \/ FilterEntry("SPATIAL")) =>
        /\ MissingBound => (pc = "error" /\ filt_bsdb = NoTable)
        /\ pc = "filtered" =>
             /\ \A i \in 1..Len(filt_bsdb.rows) : PassesDates(filt_bsdb.rows[i])
             /\ DateCountSaid =
                    IF args.apply_date_filter
                    THEN {Cardinality({i \in 1..Len(structure_df.rows) :
                                           PassesDates(structure_df.rows[i])})}
                    ELSE {}
             /\ (FilterEntry("AUTOMATED") /\ IsNone(args.filter_field)) =>
                    filt_bsdb.rows = SelectSeq(structure_df.rows, PassesDates)
             /\ FilterEntry("SPATIAL") =>
                    filt_bsdb.rows =
                        SelectSeq(structure_df.rows, LAMBDA r :
                            PassesDates(r) /\ r.geometry \in args.polygon_input.points)

\* a call returned a record dated on the start and one dated on the end of
\* its range
C19_Witness ==
    /\ pc = "filtered"
    /\ args.apply_date_filter
    /\ \E i, j \in 1..Len(filt_bsdb.rows) :
           /\ filt_bsdb.rows[i].clean_date = args.start_date.date
           /\ filt_bsdb.rows[j].clean_date = args.end_date.date
           /\ i # j

\* the call filters by Wildfire Name, in any letter case
ByWildfireName ==
    /\ FilterEntry("AUTOMATED")
    /\ ~IsNone(args.filter_field)
    /\ Upper(args.filter_field.str) = "WILDFIRE NAME"

\* the values of the call are a list of texts
TextValues ==
    /\ ~IsNone(args.field_values)
    /\ \A i \in 1..Len(args.field_values.list) :
           "str" \in DOMAIN args.field_values.list[i]

\* the incident name of the record is one of the values, whatever the case
NameMatches(r) ==
    \E i \in 1..Len(args.field_values.list) :
        Upper(args.field_values.list[i].str) = Upper(IncidentNames[r.incidentname])

\* C20: the automated filter by Wildfire Name without a date range needs a
\* year (without one it raises) and returns exactly the records of that year
\* whose incident name matches one of the values; with a date range the year
\* is neither required nor applied.
C20_YearWithWildfireName ==
    ByWildfireName =>
        /\ (~args.apply_date_filter /\ IsNone(args.selected_year)) =>
               (pc = "error" /\ error = "ValueError" /\ filt_bsdb = NoTable)
        /\ (~args.apply_date_filter /\ ~IsNone(args.selected_year) /\ TextValues) =>
               /\ pc = "filtered"
               /\ filt_bsdb.rows =
                      SelectSeq(structure_df.rows, LAMBDA r :
                          /\ r.clean_date \div 100 = args.selected_year.year
                          /\ NameMatches(r))
        /\ (args.apply_date_filter /\ ~MissingBound /\ TextValues) =>
               /\ pc = "filtered"
               /\ filt_bsdb.rows =
                      SelectSeq(structure_df.rows, LAMBDA r :
                          PassesDates(r) /\ NameMatches(r))

\* a call by name and year left out a record of the same name in another year
C20_Witness ==
    /\ ByWildfireName /\ pc = "filtered"
    /\ ~args.apply_date_filter /\ TextValues
    /\ Len(filt_bsdb.rows) > 0
    /\ \E i \in 1..Len(structure_df.rows) :
           /\ NameMatches(structure_df.rows[i])
           /\ structure_df.rows[i].clean_date \div 100 # args.selected_year.year

\* the cell equals the value when letter case is ignored
SameIgnoringCase(cell, v) ==
    \/ "str" \in DOMAIN cell /\ "str" \in DOMAIN v /\ Upper(cell.str) = Upper(v.str)
    \/ "int" \in DOMAIN cell /\ "int" \in DOMAIN v /\ cell.int = v.int

\* the record passes the date stage and, for a call by Wildfire Name without
\* a date range, the year stage
PassesDatesAndYear(r) ==
    /\ PassesDates(r)
    /\ (ByWildfireName /\ ~args.apply_date_filter) =>
           r.clean_date \div 100 = args.selected_year.year

\* the call is complete but for its field and values: both bounds with a
\* date filter, a year where one is needed
WellConfigured ==
    /\ ~MissingBound
    /\ (ByWildfireName /\ ~args.apply_date_filter) => ~IsNone(args.selected_year)

\* C27: the automated filter matches the nickname against its table ignoring
\* letter case and rejects an unknown one; with values supplied (texts, or
\* integers such as a CoAbDis code) it keeps exactly the records whose field
\* equals one of the values ignoring letter case.
C27_NicknameAndValuesIgnoreCase ==
    (FilterEntry("AUTOMATED") /\ ~IsNone(args.filter_field) /\ WellConfigured) =>
        IF ~ValidField THEN pc = "error" /\ error = "ValueError"
        ELSE (~IsNone(args.field_values) /\ args.field_values.list # <<>>) =>
                 /\ pc = "filtered"
                 /\ filt_bsdb.rows =
                        SelectSeq(structure_df.rows, LAMBDA r :
                            /\ PassesDatesAndYear(r)
                            /\ \E i \in 1..Len(args.field_values.list) :
                                   SameIgnoringCase(
                                       BsdbCell(r, field_nicknames_upper[
                                                       Upper(args.filter_field.str)]),
                                       args.field_values.list[i]))

=============================================================================
